---- MODULE Spec2Model ----
(***************************************************************************)
(* 3DesignLab parametric-modelling core: the document store (feature list  *)
(* with dirty flags and cached results), the Feature Evaluator's rebuild,  *)
(* and the Sketch Engine's editing session.                                *)
(*                                                                         *)
(* Three specifications share the module:                                  *)
(*   Spec       the document store edited interactively and rebuilt by the *)
(*              App's performRebuild (rebuild, then commit to the cache);  *)
(*   EvalSpec   FeatureEvaluator.rebuild applied to a loaded document      *)
(*              (every feature dirty, nothing cached);                     *)
(*   SketchSpec the SketchEngine session over a heap of entity objects.    *)
(***************************************************************************)
EXTENDS Naturals, Integers, Sequences, FiniteSets, TLC

VARIABLES
  features,      \* documentStore: document.features (ordered list of features)
  nextBodyId,    \* idGenerator: number of body ids handed out so far
  nextHandle,    \* Solid Kernel: number of solid handles created so far
  rebuildCount,  \* number of rebuilds run so far
  lastResult,    \* the RebuildResult of the last rebuild (NoResult before the first)
  kernel,        \* ManifoldEngine: wasm and initPromise set or not, module instantiations
  heap,          \* JS heap of the sketch subsystem: address -> object
  committed,     \* address of the sketch feature's sketchData, 0 for none
  activeSketch,  \* SketchEngine.activeSketch: address of the scratch SketchData, 0 for null
  plane,         \* SketchEngine.plane, or Null
  nextEntityId,  \* idGenerator: number of entity ids handed out so far
  lastReturn,    \* the last SketchEngine call and what it returned or threw
  timers,        \* JS runtime: the timeouts set and neither fired nor cleared
  debounceTimer, \* FeatureEvaluator.debounceTimer: a timeout id, 0 for null
  nextTimerId,   \* JS runtime: number of timeout ids handed out so far
  now,           \* JS runtime: the clock, in ticks
  calls,         \* the rebuildDebounced calls made so far, in order
  started,       \* the rebuilds started by a timeout so far, in order
  completions,   \* the onComplete callbacks invoked so far, in order
  query,         \* the sketch a geometry tool is applied to, with its arguments
  answer         \* what the tool returned for the query

evalVars   == <<features, nextBodyId, nextHandle, rebuildCount, lastResult, kernel>>
sketchVars == <<heap, committed, activeSketch, plane, nextEntityId, lastReturn>>
debounceVars == <<timers, debounceTimer, nextTimerId, now, calls, started, completions>>
toolVars   == <<query, answer>>
vars       == <<features, nextBodyId, nextHandle, rebuildCount, lastResult, kernel,
                heap, committed, activeSketch, plane, nextEntityId, lastReturn,
                timers, debounceTimer, nextTimerId, now, calls, started, completions,
                query, answer>>

(***************************************************************************)
(* Bounds of the model.                                                    *)
(***************************************************************************)
MaxFeatures == 3
MaxDocLen == 3
MaxRebuilds == 1
MaxEntities == 2
MaxEntityIds == 3

Null == "null"
\* _cachedResult: absent, or present with its list of bodies.
NoCache == [present |-> FALSE, bodies |-> <<>>]

CachedResult(bs) == [present |-> TRUE, bodies |-> bs]
NoRef == "undefined"
\* No SketchEngine call has been made yet.
NoValue == [entities |-> <<>>, constraints |-> <<>>, profiles |-> <<>>]

NoReturn == [op |-> "none", outcome |-> "none", value |-> NoValue]
\* A sketch feature without sketchData: evalExtrude treats an absent profile
\* list and an empty one alike (FeatureEvaluator.ts:211).
NoProfiles == <<>>

(***************************************************************************)
(* Small helpers over sequences.                                           *)
(***************************************************************************)
Range(s) == {s[i] : i \in DOMAIN s}

RECURSIVE SeqFilterIdx(_, _, _)
SeqFilterIdx(s, keep, i) ==
  IF i > Len(s) THEN <<>>
  ELSE (IF i \in keep THEN <<s[i]>> ELSE <<>>) \o SeqFilterIdx(s, keep, i + 1)

Min(a, b) == IF a <= b THEN a ELSE b

\* Array.prototype.findIndex, 1-based; 0 stands for JavaScript's -1.
FindIndex(s, id) ==
  IF \E i \in DOMAIN s : s[i].id = id
  THEN CHOOSE i \in DOMAIN s : s[i].id = id /\ \A j \in 1..(i - 1) : s[j].id # id
  ELSE 0

(***************************************************************************)
(* Features (types/features.ts).  One record shape for the four variants;  *)
(* a field a variant does not carry holds its JavaScript value undefined.  *)
(***************************************************************************)
BaseFeature(id, type) ==
  [id |-> id, type |-> type, suppressed |-> FALSE, dirty |-> TRUE, cached |-> NoCache,
   shape |-> "undefined", position |-> <<0, 0, 0>>,
   profiles |-> NoProfiles, plane |-> "XY", planeOffset |-> 0,
   sketchRef |-> NoRef, targetBodyRef |-> NoRef, toolBodyRef |-> NoRef,
   direction |-> "normal", mode |-> "new", operation |-> "undefined"]

createPrimitiveFeature(id, shape, position) ==
  [BaseFeature(id, "primitive") EXCEPT !.shape = shape, !.position = position]

createSketchFeature(id, plane_, offset, profiles) ==
  [BaseFeature(id, "sketch") EXCEPT !.plane = plane_, !.planeOffset = offset,
                                    !.profiles = profiles]

createExtrudeFeature(id, sketchId, direction, mode, target) ==
  [BaseFeature(id, "extrude") EXCEPT !.sketchRef = sketchId, !.direction = direction,
                                     !.mode = mode, !.targetBodyRef = target]

createBooleanFeature(id, target, tool, operation) ==
  [BaseFeature(id, "boolean") EXCEPT !.targetBodyRef = target, !.toolBodyRef = tool,
                                     !.operation = operation]

(***************************************************************************)
(* JavaScript Map<string, V>.  The body map keeps insertion order (it is   *)
(* iterated); the maps keyed by feature id are only read by key.           *)
(***************************************************************************)
EmptyMap == [k \in {} |-> Null]

MapSet(m, k, v) == [x \in (DOMAIN m) \cup {k} |-> IF x = k THEN v ELSE m[x]]

BodyIds(bs) == {bs[i].bodyId : i \in DOMAIN bs}

BodiesHas(bs, id) == \E i \in DOMAIN bs : bs[i].bodyId = id

BodiesGet(bs, id) == bs[CHOOSE i \in DOMAIN bs : bs[i].bodyId = id]

\* Map.set: an existing key keeps its place in the iteration order.
BodiesSet(bs, b) ==
  IF BodiesHas(bs, b.bodyId)
  THEN [i \in DOMAIN bs |-> IF bs[i].bodyId = b.bodyId THEN b ELSE bs[i]]
  ELSE Append(bs, b)

BodiesDelete(bs, id) == SeqFilterIdx(bs, {i \in DOMAIN bs : bs[i].bodyId # id}, 1)

RECURSIVE BodiesSetAll(_, _, _)
BodiesSetAll(bs, new, i) ==
  IF i > Len(new) THEN bs ELSE BodiesSetAll(BodiesSet(bs, new[i]), new, i + 1)

CachedBody(manifold, bodyId, origin) ==
  [manifold |-> manifold, bodyId |-> bodyId, originFeatureId |-> origin]

(***************************************************************************)
(* The evaluation context of one rebuild, with the two generators it draws *)
(* from (fresh body ids, fresh solid handles) and what the rebuild did:    *)
(* calls counts the Solid Kernel calls, visited lists the ids of the       *)
(* features the loop handled (replayed or evaluated), in order.            *)
(***************************************************************************)
EvaluationContext(fs, nb, nh) ==
  [features |-> fs, bodies |-> <<>>, featureResults |-> EmptyMap, errors |-> EmptyMap,
   nextBodyId |-> nb, nextHandle |-> nh, calls |-> 0, visited |-> <<>>]

\* n successive Solid Kernel calls; the last one returns handle nextHandle + n.
KernelCalls(ctx, n) == [ctx EXCEPT !.nextHandle = @ + n, !.calls = @ + n]

\* generateBodyId: the generator is taken never to repeat a value.
generateBodyId(ctx) == ctx.nextBodyId + 1

Returned(ctx, results) == [ok |-> TRUE, message |-> "", bodies |-> results, ctx |-> ctx]

Thrown(ctx, message) == [ok |-> FALSE, message |-> message, bodies |-> <<>>, ctx |-> ctx]

\* Index in context.features of the first feature with that id, 0 for null.
findFeatureInContext(featureId, ctx) == FindIndex(ctx.features, featureId)

findBodyIdForFeature(featureId, ctx) ==
  IF featureId \in DOMAIN ctx.featureResults /\ Len(ctx.featureResults[featureId]) > 0
  THEN ctx.featureResults[featureId][1].bodyId
  ELSE IF \E i \in DOMAIN ctx.bodies : ctx.bodies[i].originFeatureId = featureId
       THEN ctx.bodies[CHOOSE i \in DOMAIN ctx.bodies :
                         /\ ctx.bodies[i].originFeatureId = featureId
                         /\ \A j \in 1..(i - 1) :
                              ctx.bodies[j].originFeatureId # featureId].bodyId
       ELSE 0

PrimitiveShapes == {"box", "cylinder", "sphere"}

evalPrimitive(feature, ctx) ==
  IF feature.shape \notin PrimitiveShapes
  THEN Thrown(ctx, "Unknown primitive shape")
  ELSE LET made == KernelCalls(ctx, 1)
           moved == IF feature.position # <<0, 0, 0>> THEN KernelCalls(made, 1) ELSE made
       IN Returned([moved EXCEPT !.nextBodyId = @ + 1],
                   <<CachedBody(moved.nextHandle, generateBodyId(moved), feature.id)>>)

evalSketch(feature, ctx) == Returned(ctx, <<>>)

\* Number of kernel calls of transformToPlane.
transformToPlane(plane_, offset) ==
  CASE plane_ = "XY" -> IF offset # 0 THEN 1 ELSE 0
    [] plane_ \in {"XZ", "YZ"} -> IF offset # 0 THEN 2 ELSE 1
    [] OTHER -> 0

\* A profile on which the Solid Kernel's extrude throws.
RejectedProfile == "rejected"

\* The body of the loop over the sketch's profiles, from profile k on.  The
\* bodies the loop has deleted from the context stay deleted where a later
\* iteration throws.
RECURSIVE ExtrudeProfiles(_, _, _, _, _)
ExtrudeProfiles(feature, sketchFeature, k, ctx, results) ==
  IF k > Len(sketchFeature.profiles) THEN Returned(ctx, results)
  ELSE IF sketchFeature.profiles[k] = RejectedProfile
    THEN Thrown(KernelCalls(ctx, 1), "Solid Kernel error")
  ELSE
    LET n == 1 + (IF feature.direction \in {"reverse", "symmetric"} THEN 1 ELSE 0)
               + transformToPlane(sketchFeature.plane, sketchFeature.planeOffset)
        c1 == KernelCalls(ctx, n)
        fresh == CachedBody(c1.nextHandle, generateBodyId(c1), feature.id)
        asNew == ExtrudeProfiles(feature, sketchFeature, k + 1,
                                 [c1 EXCEPT !.nextBodyId = @ + 1], Append(results, fresh))
        targetId == findBodyIdForFeature(feature.targetBodyRef, c1)
        found == BodiesHas(c1.bodies, targetId)
        c2 == KernelCalls(c1, 1)
        combined == CachedBody(c2.nextHandle, targetId, feature.id)
        asCombined == ExtrudeProfiles(feature, sketchFeature, k + 1,
                                      [c2 EXCEPT !.bodies = BodiesDelete(@, targetId)],
                                      Append(results, combined))
    IN CASE feature.mode = "new" -> asNew
         [] feature.mode = "join" /\ feature.targetBodyRef # NoRef ->
              IF found THEN asCombined ELSE asNew
         [] feature.mode = "cut" /\ feature.targetBodyRef # NoRef ->
              IF found THEN asCombined
              ELSE ExtrudeProfiles(feature, sketchFeature, k + 1, c1, results)
         [] OTHER -> asNew

\* Faulty variant of evalExtrude: a sketch without profiles extrudes to nothing.
evalExtrudeSkipsEmptySketch(feature, ctx) ==
  LET found == findFeatureInContext(feature.sketchRef, ctx)
      sketchFeature == ctx.features[found]
  IN IF found = 0 THEN Thrown(ctx, "Extrude: Cannot find referenced sketch")
     ELSE IF sketchFeature.type # "sketch"
          THEN Thrown(ctx, "Extrude: Cannot find referenced sketch")
     ELSE ExtrudeProfiles(feature, sketchFeature, 1, ctx, <<>>)

\* Faulty variant of evalExtrude: only the first profile is extruded.
evalExtrudeFirstProfile(feature, ctx) ==
  LET found == findFeatureInContext(feature.sketchRef, ctx)
      sketchFeature == ctx.features[found]
  IN IF found = 0 THEN Thrown(ctx, "Extrude: Cannot find referenced sketch")
     ELSE IF sketchFeature.type # "sketch"
          THEN Thrown(ctx, "Extrude: Cannot find referenced sketch")
     ELSE IF Len(sketchFeature.profiles) = 0
          THEN Thrown(ctx, "Extrude: No profiles found in sketch")
     ELSE ExtrudeProfiles(feature, [sketchFeature EXCEPT !.profiles = <<@[1]>>], 1, ctx, <<>>)

evalExtrude(feature, ctx) ==
  LET found == findFeatureInContext(feature.sketchRef, ctx)
      sketchFeature == ctx.features[found]
  IN IF found = 0 THEN Thrown(ctx, "Extrude: Cannot find referenced sketch")
     ELSE IF sketchFeature.type # "sketch"
          THEN Thrown(ctx, "Extrude: Cannot find referenced sketch")
     ELSE IF Len(sketchFeature.profiles) = 0
          THEN Thrown(ctx, "Extrude: No profiles found in sketch")
     ELSE ExtrudeProfiles(feature, sketchFeature, 1, ctx, <<>>)

BooleanOperations == {"union", "difference", "intersect"}

\* Faulty variant of evalBoolean: the target and the tool body stay in the
\* body map.
evalBooleanKeepsInputs(feature, ctx) ==
  LET targetBodyId == findBodyIdForFeature(feature.targetBodyRef, ctx)
      toolBodyId == findBodyIdForFeature(feature.toolBodyRef, ctx)
  IN IF ~BodiesHas(ctx.bodies, targetBodyId)
     THEN Thrown(ctx, "Boolean: Cannot find target body")
     ELSE IF ~BodiesHas(ctx.bodies, toolBodyId)
          THEN Thrown(ctx, "Boolean: Cannot find tool body")
     ELSE IF feature.operation \notin BooleanOperations
          THEN Thrown(ctx, "Unknown boolean operation")
     ELSE LET c1 == KernelCalls(ctx, 1)
          IN Returned([c1 EXCEPT !.nextBodyId = @ + 1],
                      <<CachedBody(c1.nextHandle, generateBodyId(c1), feature.id)>>)

evalBoolean(feature, ctx) ==
  LET targetBodyId == findBodyIdForFeature(feature.targetBodyRef, ctx)
      toolBodyId == findBodyIdForFeature(feature.toolBodyRef, ctx)
  IN IF ~BodiesHas(ctx.bodies, targetBodyId)
     THEN Thrown(ctx, "Boolean: Cannot find target body")
     ELSE IF ~BodiesHas(ctx.bodies, toolBodyId)
          THEN Thrown(ctx, "Boolean: Cannot find tool body")
     ELSE IF feature.operation \notin BooleanOperations
          THEN Thrown(ctx, "Unknown boolean operation")
     ELSE LET c1 == KernelCalls(ctx, 1)
              left == BodiesDelete(BodiesDelete(c1.bodies, targetBodyId), toolBodyId)
          IN Returned([c1 EXCEPT !.bodies = left, !.nextBodyId = @ + 1],
                      <<CachedBody(c1.nextHandle, generateBodyId(c1), feature.id)>>)

evaluateFeature(feature, ctx) ==
  CASE feature.type = "primitive" -> evalPrimitive(feature, ctx)
    [] feature.type = "sketch" -> evalSketch(feature, ctx)
    [] feature.type = "extrude" -> evalExtrude(feature, ctx)
    [] feature.type = "boolean" -> evalBoolean(feature, ctx)
    [] OTHER -> Thrown(ctx, "Unknown feature type")

\* One iteration of the loop of rebuild, for a feature that is not suppressed.
CacheReplay(feature, ctx) ==
  [ctx EXCEPT !.bodies = BodiesSetAll(@, feature.cached.bodies, 1),
              !.featureResults = MapSet(@, feature.id, feature.cached.bodies),
              !.visited = Append(@, feature.id)]

Evaluate(feature, ctx) ==
  LET r == evaluateFeature(feature, [ctx EXCEPT !.visited = Append(@, feature.id)])
  IN IF r.ok
     THEN [r.ctx EXCEPT !.featureResults = MapSet(@, feature.id, r.bodies),
                        !.bodies = BodiesSetAll(@, r.bodies, 1)]
     ELSE [r.ctx EXCEPT !.errors = MapSet(@, feature.id, r.message)]

\* Faulty variant of RebuildStep: the loop gives up after the first error.
RebuildStepStopsAtError(feature, ctx) ==
  IF feature.suppressed \/ DOMAIN ctx.errors # {} THEN ctx
  ELSE IF ~feature.dirty /\ feature.cached.present THEN CacheReplay(feature, ctx)
  ELSE Evaluate(feature, ctx)

RebuildStep(feature, ctx) ==
  IF feature.suppressed THEN ctx
  ELSE IF ~feature.dirty /\ feature.cached.present THEN CacheReplay(feature, ctx)
  ELSE Evaluate(feature, ctx)

\* The loop of rebuild over the features i..n of the list.
RECURSIVE RebuildLoop(_, _, _, _)
RebuildLoop(fs, i, n, ctx) ==
  IF i > n THEN ctx ELSE RebuildLoop(fs, i + 1, n, RebuildStep(fs[i], ctx))

\* FeatureEvaluator.rebuild, with the Solid Kernel initialised; the result
\* carries the context's bookkeeping besides the RebuildResult fields.
rebuild(fs, nb, nh) ==
  LET ctx == RebuildLoop(fs, 1, Len(fs), EvaluationContext(fs, nb, nh))
  IN [success |-> (DOMAIN ctx.errors = {}), bodies |-> ctx.bodies, errors |-> ctx.errors,
      nextBodyId |-> ctx.nextBodyId, nextHandle |-> ctx.nextHandle,
      calls |-> ctx.calls, visited |-> ctx.visited,
      featureResults |-> ctx.featureResults]

(***************************************************************************)
(* The features the authoring layer creates in this model.  Features with  *)
(* the same id are variants of one feature: a document holds at most one.  *)
(***************************************************************************)
TwoProfiles == <<"profile1", "profile2">>

OneProfile == <<"profile1">>

FeaturePool ==
  { createPrimitiveFeature("A", "box", <<0, 0, 0>>),
    createPrimitiveFeature("B", "sphere", <<5, 0, 0>>),
    createPrimitiveFeature("X", "cone", <<0, 0, 0>>),
    createSketchFeature("S", "XY", 0, TwoProfiles),
    createSketchFeature("S", "XZ", 0, OneProfile),
    createSketchFeature("S", "XY", 0, NoProfiles),
    createSketchFeature("S", "XY", 0, <<"profile1", RejectedProfile>>),
    createExtrudeFeature("E", "S", "normal", "new", NoRef),
    createExtrudeFeature("E", "S", "symmetric", "join", "A"),
    createExtrudeFeature("E", "S", "normal", "cut", "A"),
    createExtrudeFeature("E", "S", "normal", "join", NoRef),
    createExtrudeFeature("E", "S", "reverse", "cut", NoRef),
    createExtrudeFeature("E", "A", "normal", "new", NoRef),
    createBooleanFeature("C", "A", "B", "union"),
    createBooleanFeature("C", "A", "A", "intersect"),
    createBooleanFeature("D", "C", "A", "difference") }

StorePool ==
  { createPrimitiveFeature("A", "box", <<0, 0, 0>>),
    createPrimitiveFeature("B", "sphere", <<5, 0, 0>>),
    createSketchFeature("S", "XY", 0, OneProfile),
    createExtrudeFeature("E", "S", "normal", "join", "A"),
    createBooleanFeature("C", "A", "B", "union") }

\* An id no feature carries.
UnknownId == "Z"

FeatureIds(fs) == {fs[i].id : i \in DOMAIN fs}

DistinctIds(fs) == \A i, j \in DOMAIN fs : i # j => fs[i].id # fs[j].id

\* The documents of EvalSpec: up to MaxDocLen features of the pool, in any
\* order, any of them suppressed, every one dirty and none cached.
Documents ==
  LET variants == {[f EXCEPT !.suppressed = b] : f \in FeaturePool, b \in BOOLEAN}
  IN {fs \in UNION {[1..n -> variants] : n \in 0..MaxDocLen} : DistinctIds(fs)}

(***************************************************************************)
(* documentStore actions on the feature list.  Indices are 1-based: index  *)
(* 0 is JavaScript's -1 of findIndex.                                      *)
(***************************************************************************)
\* Faulty variant of MarkDirtyFrom: the loop starts one index too late.
MarkDirtyAfter(fs, from) ==
  [i \in DOMAIN fs |-> IF i > from THEN [fs[i] EXCEPT !.dirty = TRUE] ELSE fs[i]]

MarkDirtyFrom(fs, from) ==
  [i \in DOMAIN fs |-> IF i >= from THEN [fs[i] EXCEPT !.dirty = TRUE] ELSE fs[i]]

\* { ...f, ...updates }
Spread(f, updates) ==
  [k \in DOMAIN f |-> IF k \in DOMAIN updates THEN updates[k] ELSE f[k]]

addFeature(fs, feature) == Append(fs, [feature EXCEPT !.dirty = TRUE])

updateFeature(fs, id, updates) ==
  LET mapped == [i \in DOMAIN fs |->
                   IF fs[i].id = id THEN [Spread(fs[i], updates) EXCEPT !.dirty = TRUE]
                   ELSE fs[i]]
      index == FindIndex(mapped, id)
  IN MarkDirtyFrom(mapped, index + 1)

\* For an id that is not in the list the loop starts at JavaScript index -1:
\* it writes a property "-1" on the array, which is no element of the list,
\* and then marks every feature dirty.
deleteFeature(fs, id) ==
  LET index == FindIndex(fs, id)
      filtered == SeqFilterIdx(fs, {i \in DOMAIN fs : fs[i].id # id}, 1)
  IN MarkDirtyFrom(filtered, index)

\* Array.prototype.splice(newIndex, 0, feature) on the list without the
\* feature clamps the insertion point to the end of that list.
reorderFeature(fs, id, newIndex) ==
  LET oldIndex == FindIndex(fs, id)
      without == SeqFilterIdx(fs, (DOMAIN fs) \ {oldIndex}, 1)
      at == Min(newIndex, Len(without) + 1)
      moved == SubSeq(without, 1, at - 1) \o <<fs[oldIndex]>>
                 \o SubSeq(without, at, Len(without))
  IN IF oldIndex = 0 \/ oldIndex = newIndex THEN fs
     ELSE MarkDirtyFrom(moved, Min(oldIndex, newIndex))

suppressFeature(fs, id, suppressed) ==
  LET mapped == [i \in DOMAIN fs |->
                   IF fs[i].id = id
                   THEN [fs[i] EXCEPT !.suppressed = suppressed, !.dirty = TRUE]
                   ELSE fs[i]]
      index == FindIndex(mapped, id)
  IN MarkDirtyFrom(mapped, index + 1)

\* The parameters a feature of each type carries (types/features.ts), by the
\* field of the feature record that holds the parameter's value.
ParameterKeys(type) ==
  CASE type = "primitive" -> {"shape", "position"}
    [] type = "sketch" -> {"plane", "planeOffset"}
    [] type = "extrude" -> {"direction", "mode"}
    [] type = "boolean" -> {"operation"}
    [] OTHER -> {}

updateParameter(fs, featureId, paramKey, value) ==
  LET mapped == [i \in DOMAIN fs |->
                   IF fs[i].id = featureId
                   THEN [k \in DOMAIN fs[i] |->
                           IF k = "dirty" THEN TRUE
                           ELSE IF k = paramKey /\ k \in ParameterKeys(fs[i].type)
                                THEN value
                                ELSE fs[i][k]]
                   ELSE fs[i]]
      featureIndex == FindIndex(mapped, featureId)
  IN MarkDirtyFrom(mapped, featureIndex + 1)

markFeatureDirty(fs, id) ==
  LET featureIndex == FindIndex(fs, id)
  IN [i \in DOMAIN fs |->
        IF fs[i].id = id \/ (featureIndex # 0 /\ i > featureIndex)
        THEN [fs[i] EXCEPT !.dirty = TRUE]
        ELSE fs[i]]

markAllDirty(fs) == [i \in DOMAIN fs |-> [fs[i] EXCEPT !.dirty = TRUE]]

setCachedResult(fs, featureId, bs) ==
  [i \in DOMAIN fs |->
     IF fs[i].id = featureId
     THEN [fs[i] EXCEPT !.dirty = FALSE, !.cached = CachedResult(bs)]
     ELSE fs[i]]

(***************************************************************************)
(* App.performRebuild, lines 102-118: after the rebuild, every feature of  *)
(* the rebuilt list that is not suppressed and has bodies tagged with its  *)
(* id in the result gets them as its cached result.                        *)
(***************************************************************************)
BodiesOf(bs, featureId) ==
  SeqFilterIdx(bs, {i \in DOMAIN bs : bs[i].originFeatureId = featureId}, 1)

RECURSIVE CommitResults(_, _, _, _)
CommitResults(fs, rebuilt, i, result) ==
  IF i > Len(rebuilt) THEN fs
  ELSE LET featureBodies == BodiesOf(result.bodies, rebuilt[i].id)
       IN CommitResults(
            IF ~rebuilt[i].suppressed /\ Len(featureBodies) > 0
            THEN setCachedResult(fs, rebuilt[i].id, featureBodies)
            ELSE fs,
            rebuilt, i + 1, result)

\* App.tsx:139, the guard of the debounced rebuild.
hasDirty(fs) == \E i \in DOMAIN fs : fs[i].dirty /\ ~fs[i].suppressed

(***************************************************************************)
(* State of the sketch subsystem while only the document is exercised.     *)
(***************************************************************************)
SketchUnused ==
  /\ heap = <<>>
  /\ committed = 0
  /\ activeSketch = 0
  /\ plane = Null
  /\ nextEntityId = 0
  /\ lastReturn = NoReturn

NoResult == rebuild(<<>>, 0, 0)

(***************************************************************************)
(* ManifoldEngine: wasm and initPromise are set or null; loads counts the  *)
(* instantiations of the WASM module.                                      *)
(***************************************************************************)
NoKernel == [wasm |-> FALSE, initPromise |-> FALSE, loads |-> 0]

\* Faulty variant of initialize: a pending initialisation is not shared.
initializeAgain(k) ==
  IF k.wasm THEN k
  ELSE [k EXCEPT !.initPromise = TRUE, !.loads = @ + 1]

\* ManifoldEngine.initialize up to its await: nothing when wasm is set, the
\* pending promise when there is one, otherwise the module is instantiated.
initialize(k) ==
  IF k.wasm THEN k
  ELSE IF k.initPromise THEN k
  ELSE [k EXCEPT !.initPromise = TRUE, !.loads = @ + 1]

\* The continuation of initialize: this.wasm = await Module(), setup().
moduleLoaded(k) == [k EXCEPT !.wasm = TRUE]

\* The kernel where only the document, a sketch or a tool is exercised: it
\* has been initialised.
KernelReady == moduleLoaded(initialize(NoKernel))

(***************************************************************************)
(* State of the debounce timer and of the geometry tools while they are    *)
(* not exercised.                                                          *)
(***************************************************************************)
DebounceUnused ==
  /\ timers = {}
  /\ debounceTimer = 0
  /\ nextTimerId = 0
  /\ now = 0
  /\ calls = <<>>
  /\ started = <<>>
  /\ completions = <<>>

NoQuery == [tool |-> "none"]

ToolsUnused ==
  /\ query = NoQuery
  /\ answer = NoQuery

(***************************************************************************)
(* Spec: the document store, edited and rebuilt.                           *)
(***************************************************************************)
Init ==
  /\ features = <<>>
  /\ nextBodyId = 0
  /\ nextHandle = 0
  /\ rebuildCount = 0
  /\ lastResult = NoResult
  /\ kernel = KernelReady
  /\ SketchUnused
  /\ DebounceUnused
  /\ ToolsUnused

\* The ids the store's actions are called with: those of the list and one
\* that is not in it.
IdArgs == FeatureIds(features) \cup {UnknownId}

\* Partial<Feature> as the callers pass it: a rename of any feature
\* (FeatureItem.tsx:32; the name is not modelled) and the sketch data
\* committed to a sketch feature (App.tsx:238).
FeatureUpdates(id) ==
  {EmptyMap} \cup
  (IF \E i \in DOMAIN features : features[i].id = id /\ features[i].type = "sketch"
   THEN {[profiles |-> OneProfile]} ELSE {})

\* ParameterPanel.tsx:27: a parameter key of the panel and its new value.
ParameterEdits == { <<"position", <<0, 0, 0>>>> }

Edit(fs) ==
  /\ features' = fs
  /\ UNCHANGED <<nextBodyId, nextHandle, rebuildCount, lastResult, kernel>>
  /\ UNCHANGED <<sketchVars, debounceVars, toolVars>>

AddFeature ==
  \E f \in StorePool :
    /\ Len(features) < MaxFeatures
    /\ f.id \notin FeatureIds(features)
    /\ Edit(addFeature(features, f))

UpdateFeature ==
  \E id \in IdArgs :
    \E updates \in FeatureUpdates(id) : Edit(updateFeature(features, id, updates))

DeleteFeature ==
  \E id \in IdArgs : Edit(deleteFeature(features, id))

ReorderFeature ==
  \E id \in IdArgs, newIndex \in 1..(Len(features) + 1) :
    Edit(reorderFeature(features, id, newIndex))

SuppressFeature ==
  \E id \in IdArgs, suppressed \in BOOLEAN : Edit(suppressFeature(features, id, suppressed))

UpdateParameter ==
  \E id \in IdArgs, edit \in ParameterEdits :
    Edit(updateParameter(features, id, edit[1], edit[2]))

MarkFeatureDirty ==
  \E id \in IdArgs : Edit(markFeatureDirty(features, id))

MarkAllDirty == Edit(markAllDirty(features))

\* The debounced rebuild of App.tsx with the Solid Kernel initialised:
\* rebuild, then commit to the cache.  The result itself is not kept in the
\* state of this specification: what a rebuild of the current list returns
\* is rebuild(features, nextBodyId, nextHandle).
PerformRebuild ==
  /\ hasDirty(features)
  /\ rebuildCount < MaxRebuilds
  /\ LET result == rebuild(features, nextBodyId, nextHandle)
     IN /\ features' = CommitResults(features, features, 1, result)
        /\ nextBodyId' = result.nextBodyId
        /\ nextHandle' = result.nextHandle
        /\ lastResult' = lastResult
        /\ kernel' = kernel
  /\ rebuildCount' = rebuildCount + 1
  /\ UNCHANGED <<sketchVars, debounceVars, toolVars>>

Next ==
  \/ AddFeature
  \/ UpdateFeature
  \/ DeleteFeature
  \/ ReorderFeature
  \/ SuppressFeature
  \/ UpdateParameter
  \/ MarkFeatureDirty
  \/ MarkAllDirty
  \/ PerformRebuild

Spec == Init /\ [][Next]_vars

(***************************************************************************)
(* EvalSpec: FeatureEvaluator.rebuild on a document whose features are all *)
(* dirty and not cached.                                                   *)
(***************************************************************************)
EvalInit ==
  /\ features \in Documents
  /\ nextBodyId = 0
  /\ nextHandle = 0
  /\ rebuildCount = 0
  /\ lastResult = NoResult
  /\ kernel = KernelReady
  /\ SketchUnused
  /\ DebounceUnused
  /\ ToolsUnused

Rebuild ==
  /\ rebuildCount = 0
  /\ lastResult' = rebuild(features, nextBodyId, nextHandle)
  /\ rebuildCount' = 1
  /\ UNCHANGED <<features, nextBodyId, nextHandle, kernel>>
  /\ UNCHANGED <<sketchVars, debounceVars, toolVars>>

EvalNext == Rebuild

EvalSpec == EvalInit /\ [][EvalNext]_vars

(***************************************************************************)
(* The Sketch Engine over a heap of JavaScript objects.  An address is a   *)
(* positive number, 0 is null.  Three kinds of object are written in place *)
(* by the engine and live in the heap: a SketchData (its entities and      *)
(* constraints fields hold the addresses of two arrays), an array, and an  *)
(* entity.  Points, constraints and profiles are never written in place by *)
(* the engine (its only writes are SketchEngine.ts:121, 154-227, 241, 254, *)
(* 257, 272, 289, 298, 383 and 496) and are values inside their holder.    *)
(* The heap is the list of its objects, an object's address its index.    *)
(***************************************************************************)
\* The grid size createSketchData gives a sketch.
GridSize == 10

SketchObject(entities, constraints, profiles) ==
  [kind |-> "sketch", entities |-> entities, constraints |-> constraints,
   profiles |-> profiles, gridSize |-> GridSize, snapEnabled |-> TRUE]

ArrayObject(items) == [kind |-> "array", items |-> items]

\* p and q are the entity's points (start/end, corner1/corner2, center or
\* position in both), radius is 0 for the types without one.
EntityObject(id, type, p, q, radius) ==
  [kind |-> "entity", id |-> id, type |-> type, construction |-> FALSE,
   p |-> p, q |-> q, radius |-> radius]

\* A new object, at the next address.
Alloc(h, obj) == [heap |-> Append(h, obj), addr |-> Len(h) + 1]

\* array.push(item)
Push(h, array, item) == [h EXCEPT ![array].items = Append(@, item)]

\* The objects reachable from the SketchData at address r, in the order a
\* traversal meets them.
Reachable(h, r) ==
  IF r = 0 THEN <<>>
  ELSE <<r, h[r].entities, h[r].constraints>> \o h[h[r].entities].items

\* Garbage collection.  What the document (root c) and the engine (root s)
\* can reach is moved to the front of the heap in traversal order, the rest
\* is dropped; addresses carry no meaning beyond identity.
Collect(h, c, s) ==
  LET all == Reachable(h, c) \o Reachable(h, s)
      order == SeqFilterIdx(all, {i \in DOMAIN all : \A j \in 1..(i - 1) : all[j] # all[i]}, 1)
      moved(a) == IF a = 0 THEN 0 ELSE CHOOSE k \in DOMAIN order : order[k] = a
      entityArrays == {h[r].entities : r \in {c, s} \ {0}}
      object(a) ==
        CASE h[a].kind = "sketch" ->
               [h[a] EXCEPT !.entities = moved(@), !.constraints = moved(@)]
          [] h[a].kind = "array" /\ a \in entityArrays ->
               [h[a] EXCEPT !.items = [i \in DOMAIN @ |-> moved(@[i])]]
          [] OTHER -> h[a]
  IN [heap |-> [k \in DOMAIN order |-> object(order[k])],
      committed |-> moved(c), activeSketch |-> moved(s)]

\* The entity objects of the sketch at address s, in list order.
EntitiesOf(h, s) == [i \in DOMAIN h[h[s].entities].items |-> h[h[h[s].entities].items[i]]]

ConstraintsOf(h, s) == h[h[s].constraints].items

\* The value of the SketchData at address s: what a reader of it sees.
SketchValue(h, s) ==
  [entities |-> EntitiesOf(h, s), constraints |-> ConstraintsOf(h, s),
   profiles |-> h[s].profiles]

\* types/sketch.ts createSketchData
createSketchData(h) ==
  LET es == Alloc(h, ArrayObject(<<>>))
      cs == Alloc(es.heap, ArrayObject(<<>>))
  IN Alloc(cs.heap, SketchObject(es.addr, cs.addr, <<>>))

\* Faulty variant of deepCopyEntity: the copy is the entity object itself.
deepCopyEntityShares(h, entity) == [heap |-> h, addr |-> entity]

\* { ...entity, start: { ...entity.start }, ... }: a new entity object.
deepCopyEntity(h, entity) == Alloc(h, h[entity])

\* data.entities.map(e => deepCopyEntity(e)), from item i on.
RECURSIVE CopyEntities(_, _, _, _)
CopyEntities(h, items, i, copies) ==
  IF i > Len(items) THEN [heap |-> h, addrs |-> copies]
  ELSE LET c == deepCopyEntity(h, items[i])
       IN CopyEntities(c.heap, items, i + 1, Append(copies, c.addr))

(***************************************************************************)
(* ProfileDetector.  The coordinates of the entities are whole numbers of  *)
(* steps, unit steps to the sketch unit, so that points closer than the    *)
(* tolerance can be told apart where unit > 1.  The points of a profile's  *)
(* loop and of its bounding box are held in hundredths of a step, its     *)
(* area in hundredths of a square step: the corners of a tessellated      *)
(* circle fall between the steps.                                          *)
(***************************************************************************)
TOLERANCE == 1

Abs(n) == IF n < 0 THEN 0 - n ELSE n

Max(a, b) == IF a > b THEN a ELSE b

\* Math.round(n / size) * size: halves round up.
RoundTo(n, size) == ((2 * n + size) \div (2 * size)) * size

Reverse(s) == [i \in DOMAIN s |-> s[Len(s) + 1 - i]]

Hundredths(p) == <<100 * p[1], 100 * p[2]>>

\* pointKey: the point rounded to the grid of the tolerance.
pointKey(p, unit) == <<RoundTo(p[1], TOLERANCE * unit), RoundTo(p[2], TOLERANCE * unit)>>

pointsEqual(a, b, unit) ==
  Abs(a[1] - b[1]) < TOLERANCE * unit /\ Abs(a[2] - b[2]) < TOLERANCE * unit

\* buildEdgeList: one edge for each line and each arc, in list order.  The
\* arcs of this model span the first quadrant (startAngle 0, endAngle
\* PI / 2), where the cosine and the sine are whole.
buildEdgeList(entities) ==
  LET edge(entity) ==
        IF entity.type = "line"
        THEN [entityId |-> entity.id, start |-> entity.p, end |-> entity.q]
        ELSE [entityId |-> entity.id,
              start |-> <<entity.p[1] + entity.radius, entity.p[2]>>,
              end |-> <<entity.p[1], entity.p[2] + entity.radius>>]
  IN SeqFilterIdx([i \in DOMAIN entities |-> edge(entities[i])],
                  {i \in DOMAIN entities : entities[i].type \in {"line", "arc"}}, 1)

\* getNodeIndex of buildGraph: the node of the point's key, made if the key
\* is new.  Nodes are numbered from 1.
getNodeIndex(nodes, p, unit) ==
  IF \E n \in DOMAIN nodes : nodes[n].key = pointKey(p, unit)
  THEN [nodes |-> nodes,
        index |-> CHOOSE n \in DOMAIN nodes : nodes[n].key = pointKey(p, unit)]
  ELSE [nodes |-> Append(nodes, [key |-> pointKey(p, unit), point |-> p, edges |-> <<>>]),
        index |-> Len(nodes) + 1]

\* buildGraph from edge edgeIndex on.  The adjacency list of a node is as
\* long as its list of edges: both are pushed to together.
RECURSIVE buildGraph(_, _, _, _)
buildGraph(edges, edgeIndex, nodes, unit) ==
  IF edgeIndex > Len(edges) THEN nodes
  ELSE LET startNode == getNodeIndex(nodes, edges[edgeIndex].start, unit)
           endNode == getNodeIndex(startNode.nodes, edges[edgeIndex].end, unit)
           atStart == [endNode.nodes EXCEPT ![startNode.index].edges =
                         Append(@, [edgeIndex |-> edgeIndex, otherNodeIndex |-> endNode.index])]
           atEnd == [atStart EXCEPT ![endNode.index].edges =
                       Append(@, [edgeIndex |-> edgeIndex, otherNodeIndex |-> startNode.index])]
       IN buildGraph(edges, edgeIndex + 1, atEnd, unit)

\* The depth at which dfs gives up.
MaxDepth == 100

\* dfs of findClosedLoops at node current, from the k-th of its edges on:
\* the cycles back to the start node that it comes upon, in that order,
\* each as the list of its edges.
RECURSIVE dfs(_, _, _, _, _, _, _)
dfs(nodes, startNode, current, depth, edgesUsed, visitedInPath, k) ==
  IF depth > MaxDepth \/ k > Len(nodes[current].edges) THEN <<>>
  ELSE LET edgeIndex == nodes[current].edges[k].edgeIndex
           otherNodeIndex == nodes[current].edges[k].otherNodeIndex
           met ==
             IF edgesUsed # <<>> /\ edgesUsed[Len(edgesUsed)] = edgeIndex THEN <<>>
             ELSE IF otherNodeIndex = startNode /\ depth >= 2
               THEN <<Append(edgesUsed, edgeIndex)>>
             ELSE IF otherNodeIndex \notin visitedInPath
               THEN dfs(nodes, startNode, otherNodeIndex, depth + 1,
                        Append(edgesUsed, edgeIndex),
                        visitedInPath \cup {otherNodeIndex}, 1)
             ELSE <<>>
       IN met \o dfs(nodes, startNode, current, depth, edgesUsed, visitedInPath, k + 1)

\* The loop of findClosedLoops over the start nodes from startNode on.
RECURSIVE CyclesFrom(_, _)
CyclesFrom(nodes, startNode) ==
  IF startNode > Len(nodes) THEN <<>>
  ELSE (IF Len(nodes[startNode].edges) < 2 THEN <<>>
        ELSE dfs(nodes, startNode, startNode, 0, <<>>, {startNode}, 1))
         \o CyclesFrom(nodes, startNode + 1)

\* The visited set of findClosedLoops: a cycle is pushed on loops unless
\* one with the same key was pushed before.  The key, the sorted edge
\* indices joined, stands for the set of the edges.
Unvisited(cycles) ==
  SeqFilterIdx(cycles, {i \in DOMAIN cycles :
                          \A j \in 1..(i - 1) : Range(cycles[j]) # Range(cycles[i])}, 1)

\* The loop of filterSimpleCycles over the sorted loops.
RECURSIVE KeepDisjoint(_, _, _)
KeepDisjoint(loops, i, result) ==
  IF i > Len(loops) THEN result
  ELSE KeepDisjoint(loops, i + 1,
         IF \E r \in DOMAIN result : Range(result[r]) \cap Range(loops[i]) # {} THEN result
         ELSE Append(result, loops[i]))

\* The loops of length n.. in the order of loops: the stable sort by length.
RECURSIVE SortByLength(_, _)
SortByLength(loops, n) ==
  IF \A i \in DOMAIN loops : Len(loops[i]) < n THEN <<>>
  ELSE SeqFilterIdx(loops, {i \in DOMAIN loops : Len(loops[i]) = n}, 1)
         \o SortByLength(loops, n + 1)

\* Faulty variant of filterSimpleCycles: the loops are taken as found.
filterSimpleCyclesAsFound(loops) == KeepDisjoint(loops, 1, <<>>)

filterSimpleCycles(loops) == KeepDisjoint(SortByLength(loops, 0), 1, <<>>)

findClosedLoops(nodes) == filterSimpleCycles(Unvisited(CyclesFrom(nodes, 1)))

\* The loop of loopToPoints over the edges i.. of the loop.
RECURSIVE FollowLoop(_, _, _, _, _, _)
FollowLoop(loop, edges, i, currentPoint, points, unit) ==
  IF i > Len(loop) THEN points
  ELSE LET edge == edges[loop[i]]
       IN IF pointsEqual(currentPoint, edge.start, unit)
          THEN FollowLoop(loop, edges, i + 1, edge.end, Append(points, edge.end), unit)
          ELSE IF pointsEqual(currentPoint, edge.end, unit)
          THEN FollowLoop(loop, edges, i + 1, edge.start, Append(points, edge.start), unit)
          ELSE FollowLoop(loop, edges, i + 1, currentPoint, points, unit)

loopToPoints(loop, edges, unit) ==
  IF Len(loop) = 0 THEN <<>>
  ELSE LET first == edges[loop[1]].start
           points == FollowLoop(loop, edges, 1, first, <<first>>, unit)
       IN IF Len(points) > 1 /\ pointsEqual(points[1], points[Len(points)], unit)
          THEN SubSeq(points, 1, Len(points) - 1)
          ELSE points

\* Twice calculateSignedArea, which is whole.
RECURSIVE TwiceSignedArea(_, _)
TwiceSignedArea(points, i) ==
  IF i > Len(points) THEN 0
  ELSE LET j == (i % Len(points)) + 1
       IN points[i][1] * points[j][2] - points[j][1] * points[i][2]
            + TwiceSignedArea(points, i + 1)

calculateBoundingBox(points) ==
  [min |-> <<CHOOSE x \in {points[i][1] : i \in DOMAIN points} :
               \A i \in DOMAIN points : x <= points[i][1],
             CHOOSE y \in {points[i][2] : i \in DOMAIN points} :
               \A i \in DOMAIN points : y <= points[i][2]>>,
   max |-> <<CHOOSE x \in {points[i][1] : i \in DOMAIN points} :
               \A i \in DOMAIN points : x >= points[i][1],
             CHOOSE y \in {points[i][2] : i \in DOMAIN points} :
               \A i \in DOMAIN points : y >= points[i][2]>>]

Profile(outerLoop, area, min, max) ==
  [id |-> 0, outerLoop |-> [i \in DOMAIN outerLoop |-> Hundredths(outerLoop[i])],
   innerLoops |-> <<>>, area |-> area,
   boundingBox |-> [min |-> Hundredths(min), max |-> Hundredths(max)]]

\* Faulty variant of createProfileFromPoints: the winding is left as found.
createProfileFromPointsAsFound(points) ==
  LET boundingBox == calculateBoundingBox(points)
  IN Profile(points, 50 * Abs(TwiceSignedArea(points, 1)), boundingBox.min, boundingBox.max)

createProfileFromPoints(points) ==
  LET signedArea == TwiceSignedArea(points, 1)
      wound == IF signedArea < 0 THEN Reverse(points) ELSE points
      boundingBox == calculateBoundingBox(wound)
  IN Profile(wound, 50 * Abs(signedArea), boundingBox.min, boundingBox.max)

\* 100 * Math.sin(i / 32 * 2 PI), from its values in the first quadrant.
Sin32(i) ==
  LET quadrant == <<0, 20, 38, 56, 71, 83, 92, 98, 100>>
      k == i % 32
  IN IF k <= 8 THEN quadrant[k + 1]
     ELSE IF k <= 16 THEN quadrant[17 - k]
     ELSE IF k <= 24 THEN 0 - quadrant[k - 15]
     ELSE 0 - quadrant[33 - k]

Cos32(i) == Sin32(i + 8)

\* createCircleProfile: the 32 corners of the tessellation; the area is
\* PI r^2 with PI to two places.
createCircleProfile(circle) ==
  [id |-> 0,
   outerLoop |-> [i \in 1..32 |->
                    <<100 * circle.p[1] + circle.radius * Cos32(i - 1),
                      100 * circle.p[2] + circle.radius * Sin32(i - 1)>>],
   innerLoops |-> <<>>,
   area |-> 314 * circle.radius * circle.radius,
   boundingBox |->
     [min |-> Hundredths(<<circle.p[1] - circle.radius, circle.p[2] - circle.radius>>),
      max |-> Hundredths(<<circle.p[1] + circle.radius, circle.p[2] + circle.radius>>)]]

\* Faulty variant of createRectangleProfile: the corners are taken as given.
createRectangleProfileAsGiven(rect) ==
  Profile(<<rect.p, <<rect.q[1], rect.p[2]>>, rect.q, <<rect.p[1], rect.q[2]>>>>,
          100 * (rect.q[1] - rect.p[1]) * (rect.q[2] - rect.p[2]), rect.p, rect.q)

createRectangleProfile(rect) ==
  LET minX == Min(rect.p[1], rect.q[1])
      maxX == Max(rect.p[1], rect.q[1])
      minY == Min(rect.p[2], rect.q[2])
      maxY == Max(rect.p[2], rect.q[2])
  IN Profile(<<<<minX, minY>>, <<maxX, minY>>, <<maxX, maxY>>, <<minX, maxY>>>>,
             100 * (maxX - minX) * (maxY - minY), <<minX, minY>>, <<maxX, maxY>>)

\* The profiles of the closed loops of lines and arcs.
LoopProfiles(entities, unit) ==
  LET edges == buildEdgeList(entities)
      nodes == buildGraph(edges, 1, <<>>, unit)
      loops == findClosedLoops(nodes)
      points == [i \in DOMAIN loops |-> loopToPoints(loops[i], edges, unit)]
      made == [i \in DOMAIN loops |-> createProfileFromPoints(points[i])]
  IN IF Len(edges) = 0 THEN <<>>
     ELSE SeqFilterIdx(made, {i \in DOMAIN loops : Len(points[i]) >= 3}, 1)

\* generateProfileId draws the ids at random: ids is what it draws, call
\* after call, and the k-th profile made takes the k-th of them.
WithIds(profiles, ids) ==
  [k \in DOMAIN profiles |-> [profiles[k] EXCEPT !.id = ids[((k - 1) % Len(ids)) + 1]]]

\* Faulty variant of detectProfiles: construction geometry is not left out.
detectProfilesOfAll(entities, unit, ids) ==
  LET of(type) == SeqFilterIdx(entities, {i \in DOMAIN entities : entities[i].type = type}, 1)
      circles == [i \in DOMAIN of("circle") |-> createCircleProfile(of("circle")[i])]
      rectangles == [i \in DOMAIN of("rectangle") |->
                       createRectangleProfile(of("rectangle")[i])]
  IN WithIds(circles \o rectangles \o LoopProfiles(entities, unit), ids)

\* Faulty variant of detectProfiles: the profile with the least id is
\* returned first.
detectProfilesSortedById(entities, unit, ids) ==
  LET nonConstruction ==
        SeqFilterIdx(entities, {i \in DOMAIN entities : ~entities[i].construction}, 1)
      of(type) == SeqFilterIdx(nonConstruction,
                               {i \in DOMAIN nonConstruction : nonConstruction[i].type = type}, 1)
      circles == [i \in DOMAIN of("circle") |-> createCircleProfile(of("circle")[i])]
      rectangles == [i \in DOMAIN of("rectangle") |->
                       createRectangleProfile(of("rectangle")[i])]
      made == WithIds(circles \o rectangles \o LoopProfiles(nonConstruction, unit), ids)
      first == {i \in DOMAIN made : \A j \in DOMAIN made : ids[j] >= ids[i]}
  IN SeqFilterIdx(made, first, 1) \o SeqFilterIdx(made, (DOMAIN made) \ first, 1)

detectProfiles(entities, unit, ids) ==
  LET nonConstruction ==
        SeqFilterIdx(entities, {i \in DOMAIN entities : ~entities[i].construction}, 1)
      of(type) == SeqFilterIdx(nonConstruction,
                               {i \in DOMAIN nonConstruction : nonConstruction[i].type = type}, 1)
      circles == [i \in DOMAIN of("circle") |-> createCircleProfile(of("circle")[i])]
      rectangles == [i \in DOMAIN of("rectangle") |->
                       createRectangleProfile(of("rectangle")[i])]
  IN WithIds(circles \o rectangles \o LoopProfiles(nonConstruction, unit), ids)

\* The ids generateProfileId draws where the sketch is finished in a
\* session.
SessionProfileIds == <<1, 2, 3, 4>>

(***************************************************************************)
(* The engine's operations.  e is the engine with the heap it works on:    *)
(* [heap, activeSketch, plane, nextEntityId]; an operation yields the      *)
(* engine afterwards, what the call returned (outcome "threw" for an       *)
(* exception) and the address of the returned object, if any.              *)
(***************************************************************************)
Ret(e, outcome, value) == [e |-> e, outcome |-> outcome, value |-> value]

NoActiveSketch(e) == Ret(e, "threw", 0)

startSketch(e, plane_) ==
  LET s == createSketchData(e.heap)
  IN Ret([e EXCEPT !.heap = s.heap, !.activeSketch = s.addr, !.plane = plane_],
         "sketch", s.addr)

loadSketch(e, data, plane_) ==
  LET copies == CopyEntities(e.heap, e.heap[e.heap[data].entities].items, 1, <<>>)
      es == Alloc(copies.heap, ArrayObject(copies.addrs))
      cs == Alloc(es.heap, ArrayObject(ConstraintsOf(e.heap, data)))
      s == Alloc(cs.heap, [SketchObject(es.addr, cs.addr, e.heap[data].profiles)
                             EXCEPT !.gridSize = e.heap[data].gridSize,
                                    !.snapEnabled = e.heap[data].snapEnabled])
  IN Ret([e EXCEPT !.heap = s.heap, !.activeSketch = s.addr, !.plane = plane_],
         "undefined", 0)

finishSketch(e) ==
  IF e.activeSketch = 0 THEN Ret(e, "null", 0)
  ELSE Ret([e EXCEPT !.heap[e.activeSketch].profiles =
                        detectProfiles(EntitiesOf(e.heap, e.activeSketch), 1,
                                       SessionProfileIds),
                     !.activeSketch = 0, !.plane = Null],
           "sketch", e.activeSketch)

\* Faulty variant of cancelSketch: the scratch sketch is kept.
cancelSketchKeepsSketch(e) == Ret([e EXCEPT !.plane = Null], "undefined", 0)

cancelSketch(e) == Ret([e EXCEPT !.activeSketch = 0, !.plane = Null], "undefined", 0)

\* The common body of addLine .. addArc: a new entity with a fresh id is
\* pushed on the entity list and returned.
AddEntity(e, type, p, q, radius) ==
  IF e.activeSketch = 0 THEN NoActiveSketch(e)
  ELSE LET id == e.nextEntityId + 1
           made == Alloc(e.heap, EntityObject(id, type, p, q, radius))
       IN Ret([e EXCEPT !.heap = Push(made.heap, made.heap[e.activeSketch].entities,
                                      made.addr),
                        !.nextEntityId = id],
              "entity", made.addr)

addLine(e, start, end) == AddEntity(e, "line", start, end, 0)

addRectangle(e, corner1, corner2) == AddEntity(e, "rectangle", corner1, corner2, 0)

addCircle(e, center, radius) == AddEntity(e, "circle", center, center, radius)

addPoint(e, position) == AddEntity(e, "point", position, position, 0)

\* The angles of the arc are not part of the model.
addArc(e, center, radius) == AddEntity(e, "arc", center, center, radius)

\* entities.findIndex(x => x.id === id), 0 for -1.
EntityIndex(e, id) ==
  LET es == EntitiesOf(e.heap, e.activeSketch)
  IN IF \E i \in DOMAIN es : es[i].id = id
     THEN CHOOSE i \in DOMAIN es : es[i].id = id /\ \A j \in 1..(i - 1) : es[j].id # id
     ELSE 0

updateEntity(e, id, updates) ==
  IF e.activeSketch = 0 THEN NoActiveSketch(e)
  ELSE LET index == EntityIndex(e, id)
           array == e.heap[e.activeSketch].entities
           made == Alloc(e.heap, Spread(e.heap[e.heap[array].items[index]], updates))
       IN IF index = 0 THEN Ret(e, "undefined", 0)
          ELSE Ret([e EXCEPT !.heap = [made.heap EXCEPT ![array].items[index] = made.addr]],
                   "undefined", 0)

\* Whether the constraint refers to the entity (SketchEngine.ts:258-259); a
\* field the constraint does not have is 0.
RefersToEntity(c, id) == c.entityId = id \/ c.entityId1 = id \/ c.entityId2 = id

\* Faulty variant of deleteEntity: without a session the call does nothing.
deleteEntityIgnoresIdle(e, id) ==
  IF e.activeSketch = 0 THEN Ret(e, "undefined", 0)
  ELSE LET s == e.activeSketch
           items == e.heap[e.heap[s].entities].items
           cons == ConstraintsOf(e.heap, s)
           es == Alloc(e.heap, ArrayObject(
                   SeqFilterIdx(items, {i \in DOMAIN items : e.heap[items[i]].id # id}, 1)))
           cs == Alloc(es.heap, ArrayObject(
                   SeqFilterIdx(cons, {i \in DOMAIN cons : ~RefersToEntity(cons[i], id)}, 1)))
       IN Ret([e EXCEPT !.heap = [cs.heap EXCEPT ![s].entities = es.addr,
                                                 ![s].constraints = cs.addr]],
              "undefined", 0)

deleteEntity(e, id) ==
  IF e.activeSketch = 0 THEN NoActiveSketch(e)
  ELSE LET s == e.activeSketch
           items == e.heap[e.heap[s].entities].items
           cons == ConstraintsOf(e.heap, s)
           es == Alloc(e.heap, ArrayObject(
                   SeqFilterIdx(items, {i \in DOMAIN items : e.heap[items[i]].id # id}, 1)))
           cs == Alloc(es.heap, ArrayObject(
                   SeqFilterIdx(cons, {i \in DOMAIN cons : ~RefersToEntity(cons[i], id)}, 1)))
       IN Ret([e EXCEPT !.heap = [cs.heap EXCEPT ![s].entities = es.addr,
                                                 ![s].constraints = cs.addr]],
              "undefined", 0)

toggleConstruction(e, id) ==
  IF e.activeSketch = 0 THEN NoActiveSketch(e)
  ELSE LET index == EntityIndex(e, id)
           entity == e.heap[e.heap[e.activeSketch].entities].items[index]
       IN IF index = 0 THEN Ret(e, "undefined", 0)
          ELSE Ret([e EXCEPT !.heap[entity].construction = ~@], "undefined", 0)

addConstraint(e, constraint) ==
  IF e.activeSketch = 0 THEN NoActiveSketch(e)
  ELSE LET id == e.nextEntityId + 1
       IN Ret([e EXCEPT !.heap = Push(@, e.heap[e.activeSketch].constraints,
                                      [constraint EXCEPT !.id = id]),
                        !.nextEntityId = id],
              "constraint", 0)

removeConstraint(e, id) ==
  IF e.activeSketch = 0 THEN NoActiveSketch(e)
  ELSE LET s == e.activeSketch
           cons == ConstraintsOf(e.heap, s)
           cs == Alloc(e.heap, ArrayObject(
                   SeqFilterIdx(cons, {i \in DOMAIN cons : cons[i].id # id}, 1)))
       IN Ret([e EXCEPT !.heap = [cs.heap EXCEPT ![s].constraints = cs.addr]],
              "undefined", 0)

\* The lines of this model are parallel to an axis, so that the unit normal
\* (-dy / length, dx / length) of offsetLine has whole components.
Sign(n) == IF n > 0 THEN 1 ELSE IF n < 0 THEN 0 - 1 ELSE 0

Middle(p, q) == <<(p[1] + q[1]) \div 2, (p[2] + q[2]) \div 2>>

\* Array.prototype.splice(index, 1)
Splice(h, array, index) ==
  [h EXCEPT ![array].items = SeqFilterIdx(@, (DOMAIN @) \ {index}, 1)]

\* A parameter along a line is the fraction n / d of whole numbers, d > 0:
\* the quotients of the source without their rounding.
Fraction(n, d) == IF d < 0 THEN [n |-> 0 - n, d |-> 0 - d] ELSE [n |-> n, d |-> d]

Below(s, t) == s.n * t.d < t.n * s.d

\* t >= 0.001 && t <= 0.999
Interior(t) == 1000 * t.n >= t.d /\ 1000 * t.n <= 999 * t.d

\* start + t * (end - start); whole where the cut falls on whole
\* coordinates, as in the sketches of this model.
PointAt(start, end, t) ==
  <<start[1] + (t.n * (end[1] - start[1])) \div t.d,
    start[2] + (t.n * (end[2] - start[2])) \div t.d>>

\* Math.sqrt on the discriminants of this model, which are squares.
Sqrt(n) == CHOOSE k \in 0..n : k * k <= n /\ (k + 1) * (k + 1) > n

\* The t of pointToLineDistance: the projection of the point on the line,
\* clamped to [0, 1].
pointToLineDistance(point, lineStart, lineEnd) ==
  LET dx == lineEnd[1] - lineStart[1]
      dy == lineEnd[2] - lineStart[2]
      lengthSquared == dx * dx + dy * dy
      dot == (point[1] - lineStart[1]) * dx + (point[2] - lineStart[2]) * dy
  IN IF lengthSquared = 0 THEN Fraction(0, 1)
     ELSE IF dot < 0 THEN Fraction(0, 1)
     ELSE IF dot > lengthSquared THEN Fraction(1, 1)
     ELSE Fraction(dot, lengthSquared)

\* lineLineIntersection: the t1 of the crossing, if the segments cross in
\* the interior of both.
lineLineIntersection(p1, p2, p3, p4) ==
  LET d1x == p2[1] - p1[1]
      d1y == p2[2] - p1[2]
      d2x == p4[1] - p3[1]
      d2y == p4[2] - p3[2]
      cross == d1x * d2y - d1y * d2x
      dx == p3[1] - p1[1]
      dy == p3[2] - p1[2]
      t1 == Fraction(dx * d2y - dy * d2x, cross)
      t2 == Fraction(dx * d1y - dy * d1x, cross)
  IN IF cross = 0 THEN <<>>
     ELSE IF Interior(t1) /\ Interior(t2) THEN <<t1>>
     ELSE <<>>

\* lineCircleIntersection: the parameters of the crossings in the interior
\* of the segment.  A line without length has a = 0 and its quotients are
\* no numbers: no comparison holds for them.
lineCircleIntersection(lineStart, lineEnd, center, radius) ==
  LET dx == lineEnd[1] - lineStart[1]
      dy == lineEnd[2] - lineStart[2]
      fx == lineStart[1] - center[1]
      fy == lineStart[2] - center[2]
      a == dx * dx + dy * dy
      b == 2 * (fx * dx + fy * dy)
      c == fx * fx + fy * fy - radius * radius
      discriminant == b * b - 4 * a * c
      sqrtDisc == Sqrt(discriminant)
      t1 == Fraction(0 - b - sqrtDisc, 2 * a)
      t2 == Fraction(0 - b + sqrtDisc, 2 * a)
  IN IF discriminant < 0 \/ a = 0 THEN <<>>
     ELSE (IF Interior(t1) THEN <<t1>> ELSE <<>>) \o
          (IF Interior(t2) /\ 1000 * sqrtDisc > a THEN <<t2>> ELSE <<>>)

\* The intersections of the line with one other entity.
IntersectionsWith(line, entity) ==
  CASE entity.type = "line" -> lineLineIntersection(line.p, line.q, entity.p, entity.q)
    [] entity.type = "circle" ->
         lineCircleIntersection(line.p, line.q, entity.p, entity.radius)
    [] entity.type = "rectangle" ->
         LET corners == <<entity.p, <<entity.q[1], entity.p[2]>>,
                          entity.q, <<entity.p[1], entity.q[2]>>>>
             edge(i) == lineLineIntersection(line.p, line.q, corners[i], corners[(i % 4) + 1])
         IN edge(1) \o edge(2) \o edge(3) \o edge(4)
    [] OTHER -> <<>>

\* intersections.sort((a, b) => a.t - b.t), by insertion.
RECURSIVE SortByT(_)
SortByT(ts) ==
  IF ts = <<>> THEN <<>>
  ELSE LET rest == SortByT(Tail(ts))
           before == SeqFilterIdx(rest, {i \in DOMAIN rest : ~Below(Head(ts), rest[i])}, 1)
           after == SeqFilterIdx(rest, {i \in DOMAIN rest : Below(Head(ts), rest[i])}, 1)
       IN before \o <<Head(ts)>> \o after

\* findLineIntersections on the entities i.. of the list: the parameters
\* along the line, found so far in found.
RECURSIVE LineIntersections(_, _, _, _)
LineIntersections(line, entities, i, found) ==
  IF i > Len(entities) THEN SortByT(found)
  ELSE LineIntersections(line, entities, i + 1,
         IF entities[i].id = line.id THEN found
         ELSE found \o IntersectionsWith(line, entities[i]))

findLineIntersections(e, lineId) ==
  LET lineIndex == EntityIndex(e, lineId)
      entities == EntitiesOf(e.heap, e.activeSketch)
  IN IF e.activeSketch = 0 THEN <<>>
     ELSE IF lineIndex = 0 THEN <<>>
     ELSE IF entities[lineIndex].type # "line" THEN <<>>
     ELSE LineIntersections(entities[lineIndex], entities, 1, <<>>)

\* The loop of trimLineAt over the intersections i..: the parameters that
\* bracket the click.
RECURSIVE Bracket(_, _, _, _, _)
Bracket(intersections, i, clickT, leftT, rightT) ==
  IF i > Len(intersections) THEN [leftT |-> leftT, rightT |-> rightT]
  ELSE LET t == intersections[i]
       IN Bracket(intersections, i + 1, clickT,
                  IF Below(t, clickT) /\ Below(leftT, t) THEN t ELSE leftT,
                  IF Below(clickT, t) /\ Below(t, rightT) THEN t ELSE rightT)

\* Faulty variant of trimLineAt: the part the click is on is kept and the
\* parts beyond the bracketing intersections are dropped.
trimLineAtKeepsClicked(e, lineId, clickPoint) ==
  IF e.activeSketch = 0 THEN Ret(e, "false", 0)
  ELSE LET lineIndex == EntityIndex(e, lineId)
           array == e.heap[e.activeSketch].entities
           line == e.heap[e.heap[array].items[lineIndex]]
           intersections == findLineIntersections(e, lineId)
           clickT == pointToLineDistance(clickPoint, line.p, line.q)
           cut == Bracket(intersections, 1, clickT, Fraction(0, 1), Fraction(1, 1))
           spliced == [e EXCEPT !.heap = Splice(@, array, lineIndex)]
       IN IF lineIndex = 0 THEN Ret(e, "false", 0)
          ELSE IF line.type # "line" THEN Ret(e, "false", 0)
          ELSE IF Len(intersections) = 0 THEN Ret(e, "false", 0)
          ELSE Ret(addLine(spliced, PointAt(line.p, line.q, cut.leftT),
                           PointAt(line.p, line.q, cut.rightT)).e, "true", 0)

\* Faulty variant of trimLineAt: the line is removed before the
\* intersections are looked at.
trimLineAtSplicesFirst(e, lineId, clickPoint) ==
  IF e.activeSketch = 0 THEN Ret(e, "false", 0)
  ELSE LET lineIndex == EntityIndex(e, lineId)
           array == e.heap[e.activeSketch].entities
           line == e.heap[e.heap[array].items[lineIndex]]
           intersections == findLineIntersections(e, lineId)
           clickT == pointToLineDistance(clickPoint, line.p, line.q)
           cut == Bracket(intersections, 1, clickT, Fraction(0, 1), Fraction(1, 1))
           spliced == [e EXCEPT !.heap = Splice(@, array, lineIndex)]
           afterLeft == IF 1000 * cut.leftT.n > cut.leftT.d
                        THEN addLine(spliced, line.p, PointAt(line.p, line.q, cut.leftT)).e
                        ELSE spliced
           afterRight == IF 1000 * cut.rightT.n < 999 * cut.rightT.d
                         THEN addLine(afterLeft, PointAt(line.p, line.q, cut.rightT), line.q).e
                         ELSE afterLeft
       IN IF lineIndex = 0 THEN Ret(e, "false", 0)
          ELSE IF line.type # "line" THEN Ret(e, "false", 0)
          ELSE IF Len(intersections) = 0 THEN Ret(spliced, "false", 0)
          ELSE Ret(afterRight, "true", 0)

trimLineAt(e, lineId, clickPoint) ==
  IF e.activeSketch = 0 THEN Ret(e, "false", 0)
  ELSE LET lineIndex == EntityIndex(e, lineId)
           array == e.heap[e.activeSketch].entities
           line == e.heap[e.heap[array].items[lineIndex]]
           intersections == findLineIntersections(e, lineId)
           clickT == pointToLineDistance(clickPoint, line.p, line.q)
           cut == Bracket(intersections, 1, clickT, Fraction(0, 1), Fraction(1, 1))
           spliced == [e EXCEPT !.heap = Splice(@, array, lineIndex)]
           afterLeft == IF 1000 * cut.leftT.n > cut.leftT.d
                        THEN addLine(spliced, line.p, PointAt(line.p, line.q, cut.leftT)).e
                        ELSE spliced
           afterRight == IF 1000 * cut.rightT.n < 999 * cut.rightT.d
                         THEN addLine(afterLeft, PointAt(line.p, line.q, cut.rightT), line.q).e
                         ELSE afterLeft
       IN IF lineIndex = 0 THEN Ret(e, "false", 0)
          ELSE IF line.type # "line" THEN Ret(e, "false", 0)
          ELSE IF Len(intersections) = 0 THEN Ret(e, "false", 0)
          ELSE Ret(afterRight, "true", 0)

offsetLine(e, lineId, offsetDistance, referencePoint) ==
  IF e.activeSketch = 0 THEN Ret(e, "null", 0)
  ELSE LET index == EntityIndex(e, lineId)
           line == EntitiesOf(e.heap, e.activeSketch)[index]
           dx == line.q[1] - line.p[1]
           dy == line.q[2] - line.p[2]
           perpX == 0 - Sign(dy)
           perpY == Sign(dx)
           \* twice the dot product of (referencePoint - midPoint) and perp
           dot == (2 * referencePoint[1] - (line.p[1] + line.q[1])) * perpX
                    + (2 * referencePoint[2] - (line.p[2] + line.q[2])) * perpY
           offset == IF dot > 0 THEN offsetDistance ELSE 0 - offsetDistance
           newStart == <<line.p[1] + perpX * offset, line.p[2] + perpY * offset>>
           newEnd == <<line.q[1] + perpX * offset, line.q[2] + perpY * offset>>
       IN IF index = 0 THEN Ret(e, "null", 0)
          ELSE IF line.type # "line" THEN Ret(e, "null", 0)
          ELSE IF dx = 0 /\ dy = 0 THEN Ret(e, "null", 0)
          ELSE addLine(e, newStart, newEnd)

\* Faulty variant of offsetCircle: the circle itself takes the new radius.
offsetCircleResizesSource(e, circleId, offsetDistance, referencePoint) ==
  IF e.activeSketch = 0 THEN Ret(e, "null", 0)
  ELSE LET index == EntityIndex(e, circleId)
           address == e.heap[e.heap[e.activeSketch].entities].items[index]
           circle == e.heap[address]
           ddx == referencePoint[1] - circle.p[1]
           ddy == referencePoint[2] - circle.p[2]
           isOutside == ddx * ddx + ddy * ddy > circle.radius * circle.radius
           newRadius == IF isOutside THEN circle.radius + offsetDistance
                        ELSE circle.radius - offsetDistance
       IN IF index = 0 THEN Ret(e, "null", 0)
          ELSE IF circle.type # "circle" THEN Ret(e, "null", 0)
          ELSE IF newRadius <= 0 THEN Ret(e, "null", 0)
          ELSE addCircle([e EXCEPT !.heap[address].radius = newRadius], circle.p, newRadius)

\* With whole radii, newRadius < 0.1 is newRadius <= 0.
offsetCircle(e, circleId, offsetDistance, referencePoint) ==
  IF e.activeSketch = 0 THEN Ret(e, "null", 0)
  ELSE LET index == EntityIndex(e, circleId)
           circle == EntitiesOf(e.heap, e.activeSketch)[index]
           ddx == referencePoint[1] - circle.p[1]
           ddy == referencePoint[2] - circle.p[2]
           isOutside == ddx * ddx + ddy * ddy > circle.radius * circle.radius
           newRadius == IF isOutside THEN circle.radius + offsetDistance
                        ELSE circle.radius - offsetDistance
       IN IF index = 0 THEN Ret(e, "null", 0)
          ELSE IF circle.type # "circle" THEN Ret(e, "null", 0)
          ELSE IF newRadius <= 0 THEN Ret(e, "null", 0)
          ELSE addCircle(e, circle.p, newRadius)

\* Faulty variant of offsetRectangle: the side of the reference point is
\* taken the wrong way round.
offsetRectangleInverted(e, rectId, offsetDistance, referencePoint) ==
  IF e.activeSketch = 0 THEN Ret(e, "null", 0)
  ELSE LET index == EntityIndex(e, rectId)
           rect == EntitiesOf(e.heap, e.activeSketch)[index]
           minX == Min(rect.p[1], rect.q[1])
           maxX == Max(rect.p[1], rect.q[1])
           minY == Min(rect.p[2], rect.q[2])
           maxY == Max(rect.p[2], rect.q[2])
           isInside == /\ referencePoint[1] > minX /\ referencePoint[1] < maxX
                       /\ referencePoint[2] > minY /\ referencePoint[2] < maxY
           offset == IF isInside THEN offsetDistance ELSE 0 - offsetDistance
           newCorner1 == <<minX - offset, minY - offset>>
           newCorner2 == <<maxX + offset, maxY + offset>>
       IN IF index = 0 THEN Ret(e, "null", 0)
          ELSE IF rect.type # "rectangle" THEN Ret(e, "null", 0)
          ELSE IF newCorner2[1] - newCorner1[1] <= 0 \/ newCorner2[2] - newCorner1[2] <= 0
               THEN Ret(e, "null", 0)
          ELSE addRectangle(e, newCorner1, newCorner2)

\* With whole coordinates, a side < 0.1 is a side <= 0.
offsetRectangle(e, rectId, offsetDistance, referencePoint) ==
  IF e.activeSketch = 0 THEN Ret(e, "null", 0)
  ELSE LET index == EntityIndex(e, rectId)
           rect == EntitiesOf(e.heap, e.activeSketch)[index]
           minX == Min(rect.p[1], rect.q[1])
           maxX == Max(rect.p[1], rect.q[1])
           minY == Min(rect.p[2], rect.q[2])
           maxY == Max(rect.p[2], rect.q[2])
           isInside == /\ referencePoint[1] > minX /\ referencePoint[1] < maxX
                       /\ referencePoint[2] > minY /\ referencePoint[2] < maxY
           offset == IF isInside THEN 0 - offsetDistance ELSE offsetDistance
           newCorner1 == <<minX - offset, minY - offset>>
           newCorner2 == <<maxX + offset, maxY + offset>>
       IN IF index = 0 THEN Ret(e, "null", 0)
          ELSE IF rect.type # "rectangle" THEN Ret(e, "null", 0)
          ELSE IF newCorner2[1] - newCorner1[1] <= 0 \/ newCorner2[2] - newCorner1[2] <= 0
               THEN Ret(e, "null", 0)
          ELSE addRectangle(e, newCorner1, newCorner2)

(***************************************************************************)
(* SketchSpec: the engine driven through its operations.  The document's   *)
(* sketch feature holds the committed SketchData (address committed, 0 for *)
(* a feature without sketch data), which entering sketch mode loads.  What *)
(* finishSketch and startSketch return is recorded by value in lastReturn. *)
(***************************************************************************)
Planes == {"XY"}

Radii == {2}

OffsetDistances == {2}

ReferencePoints == {<<0, 0>>, <<4, 3>>}

\* An id the generator never hands out.
UnknownEntityId == 0 - 1

NoConstraintRef == 0

Constraint(type, entityId, entityId1, entityId2) ==
  [id |-> 0, type |-> type, entityId |-> entityId,
   entityId1 |-> entityId1, entityId2 |-> entityId2]

\* A sketch feature that carries a circle and a constraint on it, with the
\* profile detected when it was committed.
SeededHeap ==
  LET h1 == Alloc(<<>>, EntityObject(1, "circle", <<0, 0>>, <<0, 0>>, 2))
      es == Alloc(h1.heap, ArrayObject(<<h1.addr>>))
      cs == Alloc(es.heap, ArrayObject(
              <<[Constraint("fixed", 1, NoConstraintRef, NoConstraintRef) EXCEPT !.id = 2]>>))
      s == Alloc(cs.heap, SketchObject(es.addr, cs.addr,
                   detectProfiles(<<h1.heap[h1.addr]>>, 1, SessionProfileIds)))
  IN Collect(s.heap, s.addr, 0)

\* The ids the generator handed out for the seeded sketch: one for each
\* entity and each constraint.
SeededIds ==
  LET seeded == SketchValue(SeededHeap.heap, SeededHeap.committed)
  IN Len(seeded.entities) + Len(seeded.constraints)

SketchInit ==
  /\ features = <<>>
  /\ nextBodyId = 0
  /\ nextHandle = 0
  /\ rebuildCount = 0
  /\ lastResult = NoResult
  /\ kernel = KernelReady
  /\ \/ /\ heap = <<>>
        /\ committed = 0
        /\ nextEntityId = 0
     \/ /\ heap = SeededHeap.heap
        /\ committed = SeededHeap.committed
        /\ nextEntityId = SeededIds
  /\ activeSketch = 0
  /\ plane = Null
  /\ lastReturn = NoReturn
  /\ DebounceUnused
  /\ ToolsUnused

Engine ==
  [heap |-> heap, activeSketch |-> activeSketch, plane |-> plane,
   nextEntityId |-> nextEntityId]

ScratchEntities == IF activeSketch = 0 THEN <<>> ELSE EntitiesOf(heap, activeSketch)

ScratchConstraints == IF activeSketch = 0 THEN <<>> ELSE ConstraintsOf(heap, activeSketch)

EntityIdArgs == {ScratchEntities[i].id : i \in DOMAIN ScratchEntities} \cup {UnknownEntityId}

\* Room for n more entities and m more ids within the bounds of the model;
\* without a session the operations are tried whatever the bounds.
Room(n, m) ==
  \/ activeSketch = 0
  \/ /\ Len(ScratchEntities) + n <= MaxEntities
     /\ nextEntityId + m <= MaxEntityIds

\* The engine call op has returned r; the document keeps its sketch data.
SketchCall(op, r) ==
  /\ LET kept == Collect(r.e.heap, committed, r.e.activeSketch)
     IN /\ heap' = kept.heap
        /\ committed' = kept.committed
        /\ activeSketch' = kept.activeSketch
  /\ plane' = r.e.plane
  /\ nextEntityId' = r.e.nextEntityId
  /\ lastReturn' = [op |-> op, outcome |-> r.outcome,
                     value |-> IF r.outcome = "sketch" THEN SketchValue(r.e.heap, r.value)
                               ELSE NoValue]
  /\ UNCHANGED <<evalVars, debounceVars, toolVars>>

StartSketch ==
  /\ \E plane_ \in Planes : SketchCall("startSketch", startSketch(Engine, plane_))

\* sketchStore.enterSketchMode: existingData || createSketchData() is loaded.
LoadSketch ==
  /\ \E plane_ \in Planes :
       LET data == IF committed # 0 THEN [heap |-> heap, addr |-> committed]
                   ELSE createSketchData(heap)
       IN SketchCall("loadSketch",
                     loadSketch([Engine EXCEPT !.heap = data.heap], data.addr, plane_))

FinishSketch ==
  /\ TRUE
  /\ SketchCall("finishSketch", finishSketch(Engine))

CancelSketch ==
  /\ TRUE
  /\ SketchCall("cancelSketch", cancelSketch(Engine))

AddLine ==
  /\ Room(1, 1)
  /\ SketchCall("addLine", addLine(Engine, <<0, 0>>, <<4, 0>>))

AddRectangle ==
  /\ Room(1, 1)
  /\ SketchCall("addRectangle", addRectangle(Engine, <<0, 0>>, <<4, 3>>))

AddCircle ==
  /\ Room(1, 1)
  /\ \E radius \in Radii : SketchCall("addCircle", addCircle(Engine, <<0, 0>>, radius))

AddPoint ==
  /\ Room(1, 1)
  /\ SketchCall("addPoint", addPoint(Engine, <<0, 0>>))

AddArc ==
  /\ Room(1, 1)
  /\ \E radius \in Radii : SketchCall("addArc", addArc(Engine, <<0, 0>>, radius))

\* Partial<SketchEntity>: the construction flag, or an id (that of an entity
\* of the sketch).
EntityUpdates ==
  {[construction |-> TRUE]} \cup {[id |-> ScratchEntities[i].id] : i \in DOMAIN ScratchEntities}

UpdateEntity ==
  \E id \in EntityIdArgs, updates \in EntityUpdates :
    SketchCall("updateEntity", updateEntity(Engine, id, updates))

DeleteEntity ==
  \E id \in EntityIdArgs : SketchCall("deleteEntity", deleteEntity(Engine, id))

ToggleConstruction ==
  \E id \in EntityIdArgs : SketchCall("toggleConstruction", toggleConstruction(Engine, id))

\* Omit<Constraint, 'id'>: a unary constraint on an entity of the sketch.
AddConstraint ==
  /\ Room(0, 1)
  /\ \E id \in EntityIdArgs :
       SketchCall("addConstraint",
                  addConstraint(Engine, Constraint("fixed", id, NoConstraintRef,
                                                   NoConstraintRef)))

RemoveConstraint ==
  \E id \in {ScratchConstraints[i].id : i \in DOMAIN ScratchConstraints}
              \cup {UnknownEntityId} :
    SketchCall("removeConstraint", removeConstraint(Engine, id))

\* Clicks on either half of the line that AddLine draws, and on the point
\* where the circle of AddCircle crosses it.
ClickPoints == {<<1, 0>>, <<2, 0>>, <<3, 0>>}

TrimLineAt ==
  /\ \E id \in EntityIdArgs, clickPoint \in ClickPoints :
       LET r == trimLineAt(Engine, id, clickPoint)
       IN /\ r.e.nextEntityId <= MaxEntityIds
          /\ r.e.activeSketch # 0 =>
               Len(EntitiesOf(r.e.heap, r.e.activeSketch)) <= MaxEntities
          /\ SketchCall("trimLineAt", r)

OffsetLine ==
  /\ Room(1, 1)
  /\ \E id \in EntityIdArgs, d \in OffsetDistances, ref \in ReferencePoints :
       SketchCall("offsetLine", offsetLine(Engine, id, d, ref))

OffsetCircle ==
  /\ Room(1, 1)
  /\ \E id \in EntityIdArgs, d \in OffsetDistances, ref \in ReferencePoints :
       SketchCall("offsetCircle", offsetCircle(Engine, id, d, ref))

OffsetRectangle ==
  /\ Room(1, 1)
  /\ \E id \in EntityIdArgs, d \in OffsetDistances, ref \in ReferencePoints :
       SketchCall("offsetRectangle", offsetRectangle(Engine, id, d, ref))

SketchNext ==
  \/ StartSketch
  \/ LoadSketch
  \/ FinishSketch
  \/ CancelSketch
  \/ AddLine
  \/ AddRectangle
  \/ AddCircle
  \/ AddPoint
  \/ AddArc
  \/ UpdateEntity
  \/ DeleteEntity
  \/ ToggleConstruction
  \/ AddConstraint
  \/ RemoveConstraint
  \/ TrimLineAt
  \/ OffsetLine
  \/ OffsetCircle
  \/ OffsetRectangle

SketchSpec == SketchInit /\ [][SketchNext]_vars

(***************************************************************************)
(* Vocabulary of the properties.                                           *)
(***************************************************************************)
\* The context in which the loop of the current rebuild reaches feature i.
ContextBefore(fs, i) ==
  RebuildLoop(fs, 1, i - 1, EvaluationContext(fs, nextBodyId, nextHandle))

\* Evaluating feature i, in the context the loop reaches it in, throws.
Throws(fs, i) == ~evaluateFeature(fs[i], ContextBefore(fs, i)).ok

Unsuppressed(fs) == {i \in DOMAIN fs : ~fs[i].suppressed}

IdsOf(fs, idx) == SeqFilterIdx([i \in DOMAIN fs |-> fs[i].id], idx, 1)

Without(fs, idx) == SeqFilterIdx(fs, (DOMAIN fs) \ idx, 1)

\* Feature j names feature id in one of its references.
RefersTo(f, id) == id \in {f.sketchRef, f.targetBodyRef, f.toolBodyRef}

\* The sketch an Extrude names is missing, is no sketch, or has no profiles.
SketchUnresolved(fs, i) ==
  /\ fs[i].type = "extrude"
  /\ LET k == FindIndex(fs, fs[i].sketchRef)
     IN k = 0 \/ fs[k].type # "sketch" \/ Len(fs[k].profiles) = 0

\* No live body stands for the feature named ref when the loop reaches i.
BodyUnresolved(fs, i, ref) ==
  LET ctx == ContextBefore(fs, i)
  IN ~BodiesHas(ctx.bodies, findBodyIdForFeature(ref, ctx))

TargetUnresolved(fs, i) ==
  /\ fs[i].type = "extrude"
  /\ fs[i].mode \in {"join", "cut"}
  /\ fs[i].targetBodyRef # NoRef
  /\ BodyUnresolved(fs, i, fs[i].targetBodyRef)

BooleanUnresolved(fs, i) ==
  /\ fs[i].type = "boolean"
  /\ \/ BodyUnresolved(fs, i, fs[i].targetBodyRef)
     \/ BodyUnresolved(fs, i, fs[i].toolBodyRef)

\* Every other feature that does not refer to feature i fares as it does when
\* the document is rebuilt without feature i: the same error or the same bodies.
Independent(fs, i, result) ==
  LET alone == rebuild(Without(fs, {i}), nextBodyId, nextHandle)
  IN \A j \in Unsuppressed(fs) \ {i} :
       ~RefersTo(fs[j], fs[i].id) =>
         /\ fs[j].id \in DOMAIN result.errors <=> fs[j].id \in DOMAIN alone.errors
         /\ fs[j].id \in DOMAIN result.featureResults
              <=> fs[j].id \in DOMAIN alone.featureResults
         /\ fs[j].id \in DOMAIN result.featureResults =>
              result.featureResults[fs[j].id] = alone.featureResults[fs[j].id]

(***************************************************************************)
(* C1.  Failure isolation in rebuild: the features that are not suppressed *)
(* are handled in list order, all of them, whatever throws; the errors map *)
(* has an entry for exactly the features whose evaluation throws, under    *)
(* the feature's own id; success is true iff the errors map is empty.      *)
(***************************************************************************)
C1_FailureIsolation ==
  rebuildCount = 1 =>
    /\ lastResult.visited = IdsOf(features, Unsuppressed(features))
    /\ DOMAIN lastResult.errors = {features[i].id : i \in {j \in Unsuppressed(features) : Throws(features, j)}}
    /\ \A i \in Unsuppressed(features) :
         ~Throws(features, i) => features[i].id \in DOMAIN lastResult.featureResults
    /\ lastResult.success <=> (DOMAIN lastResult.errors = {})

\* A feature threw and a later feature was still evaluated to a body.
C1_Witness ==
  /\ rebuildCount = 1
  /\ \E i, j \in Unsuppressed(features) :
       /\ i < j
       /\ features[i].id \in DOMAIN lastResult.errors
       /\ features[j].id \in DOMAIN lastResult.featureResults
       /\ Len(lastResult.featureResults[features[j].id]) > 0
       /\ ~lastResult.success

C5_SuppressedSkipped ==
  rebuildCount = 1 =>
    LET suppressed == (DOMAIN features) \ Unsuppressed(features)
        alone == rebuild(Without(features, suppressed), nextBodyId, nextHandle)
    IN /\ \A i \in suppressed :
            /\ features[i].id \notin Range(lastResult.visited)
            /\ features[i].id \notin DOMAIN lastResult.errors
            /\ \A k \in DOMAIN lastResult.bodies :
                 lastResult.bodies[k].originFeatureId # features[i].id
       /\ lastResult.bodies = alone.bodies
       /\ DOMAIN lastResult.errors = DOMAIN alone.errors
       /\ lastResult.calls = alone.calls

(***************************************************************************)
(* C2.  A rebuild committed to the cache the way performRebuild does it is *)
(* followed, with no edit in between, by a rebuild that makes no Solid     *)
(* Kernel call and returns the same body map.                              *)
(***************************************************************************)
C2_SecondRebuildReplays ==
  [][rebuildCount' = rebuildCount + 1 =>
       LET first == rebuild(features, nextBodyId, nextHandle)
           second == rebuild(features', nextBodyId', nextHandle')
       IN /\ second.calls = 0
          /\ second.bodies = first.bodies]_vars

(***************************************************************************)
(* C3.  In the body map a rebuild of the document returns, for every       *)
(* Boolean and join-mode Extrude that is not suppressed, did not error and *)
(* whose inputs have a body when the loop reaches it, no body of its       *)
(* inputs stands as a separate body, and exactly one body stands for it    *)
(* once the loop has handled it.                                           *)
(***************************************************************************)
Consumes(f) ==
  \/ f.type = "boolean"
  \/ f.type = "extrude" /\ f.mode = "join" /\ f.targetBodyRef # NoRef

InputRefs(f) == IF f.type = "boolean" THEN {f.targetBodyRef, f.toolBodyRef}
                ELSE {f.targetBodyRef}

\* The body the feature named ref stands for in this rebuild is in the map.
StandsAlone(result, ref) ==
  /\ ref \in DOMAIN result.featureResults
  /\ Len(result.featureResults[ref]) > 0
  /\ \E k \in DOMAIN result.bodies : result.bodies[k] = result.featureResults[ref][1]

C3_InputsRetired ==
  LET result == rebuild(features, nextBodyId, nextHandle)
  IN \A i \in Unsuppressed(features) :
       (/\ Consumes(features[i])
        /\ features[i].id \notin DOMAIN result.errors
        /\ \A ref \in InputRefs(features[i]) : ~BodyUnresolved(features, i, ref)) =>
         /\ \A ref \in InputRefs(features[i]) : ~StandsAlone(result, ref)
         /\ LET bodies == RebuildLoop(features, 1, i,
                            EvaluationContext(features, nextBodyId, nextHandle)).bodies
            IN Cardinality({k \in DOMAIN bodies :
                              bodies[k].originFeatureId = features[i].id}) = 1

(***************************************************************************)
(* C6.  Order-based invalidation: updateFeature, updateParameter,          *)
(* suppressFeature, markFeatureDirty and deleteFeature on the feature at   *)
(* index i, and reorderFeature with i the lower of the old and the new     *)
(* index, leave every feature at an index >= i dirty and every feature at  *)
(* an index < i with its dirty flag and its cached result unchanged.       *)
(***************************************************************************)
Invalidated(before, after, i) ==
  /\ \A k \in DOMAIN after : k >= i => after[k].dirty
  /\ \A k \in 1..(i - 1) :
       /\ k \in DOMAIN after
       /\ after[k].id = before[k].id
       /\ after[k].dirty = before[k].dirty
       /\ after[k].cached = before[k].cached

C6_OrderBasedInvalidation ==
  \A i \in DOMAIN features :
    LET id == features[i].id
    IN /\ \A updates \in FeatureUpdates(id) :
            Invalidated(features, updateFeature(features, id, updates), i)
       /\ \A edit \in ParameterEdits :
            Invalidated(features, updateParameter(features, id, edit[1], edit[2]), i)
       /\ \A suppressed \in BOOLEAN :
            Invalidated(features, suppressFeature(features, id, suppressed), i)
       /\ Invalidated(features, markFeatureDirty(features, id), i)
       /\ Invalidated(features, deleteFeature(features, id), i)
       /\ \A newIndex \in (1..(Len(features) + 1)) \ {i} :
            Invalidated(features, reorderFeature(features, id, newIndex), Min(i, newIndex))

\* An edit has acted on a rebuilt document: an earlier feature is still clean
\* and cached, a later one that was cached is dirty again.
C6_Witness ==
  \E i, j \in DOMAIN features :
    /\ i < j
    /\ ~features[i].dirty /\ features[i].cached.present
    /\ features[j].dirty /\ features[j].cached.present

(***************************************************************************)
(* Sketch sessions.  The engine is Idle when activeSketch is null, Active  *)
(* otherwise; lastReturn' names the call a step makes.                     *)
(***************************************************************************)
ThrowingOps ==
  {"addLine", "addRectangle", "addCircle", "addPoint", "addArc", "updateEntity",
   "deleteEntity", "toggleConstruction", "addConstraint", "removeConstraint"}

OffsetOps == {"offsetLine", "offsetCircle", "offsetRectangle"}

MutatingOps == ThrowingOps \cup {"trimLineAt"} \cup OffsetOps

EngineUntouched == UNCHANGED <<heap, committed, activeSketch, plane, nextEntityId>>

C8_SessionStateMachine ==
  [][/\ (activeSketch = 0 /\ activeSketch' # 0)
          => lastReturn'.op \in {"startSketch", "loadSketch"}
     /\ lastReturn'.op \in {"startSketch", "loadSketch"}
          => (activeSketch' # 0 /\ plane' \in Planes)
     /\ (activeSketch # 0 /\ lastReturn'.op = "finishSketch")
          => /\ lastReturn'.outcome = "sketch"
             /\ lastReturn'.value =
                  [SketchValue(heap, activeSketch) EXCEPT
                     !.profiles = detectProfiles(ScratchEntities, 1, SessionProfileIds)]
             /\ activeSketch' = 0
             /\ plane' = Null
     /\ (activeSketch # 0 /\ lastReturn'.op = "cancelSketch")
          => /\ lastReturn'.outcome = "undefined"
             /\ activeSketch' = 0
             /\ plane' = Null
     /\ (activeSketch = 0 /\ lastReturn'.op = "finishSketch")
          => (lastReturn'.outcome = "null" /\ EngineUntouched)]_vars

\* A session whose sketch has entities has been finished.
C8_Witness ==
  /\ activeSketch = 0
  /\ plane = Null
  /\ lastReturn.op = "finishSketch"
  /\ lastReturn.outcome = "sketch"
  /\ lastReturn.value.entities # <<>>

\* C9: committed sketch data is never written in place.  No engine call
\* changes what a reader of the document's SketchData sees (its entities
\* with their points and construction flags, its constraints, its
\* profiles), and after cancelSketch the engine holds no sketch and no
\* plane and no object of the session is left.
C9_CommittedUntouched ==
  [][/\ committed # 0
          => (committed' # 0 /\ SketchValue(heap', committed') = SketchValue(heap, committed))
     /\ lastReturn'.op = "cancelSketch"
          => /\ activeSketch' = 0
             /\ plane' = Null
             /\ Len(heap') = Len(Reachable(heap', committed'))]_vars

\* A session loaded from the committed data has changed its copy of the
\* committed circle, which the committed data does not show.
C9_Witness ==
  /\ committed # 0
  /\ activeSketch # 0
  /\ lastReturn.op \in {"toggleConstruction", "updateEntity"}
  /\ \E i \in DOMAIN ScratchEntities :
       /\ ScratchEntities[i].id = EntitiesOf(heap, committed)[1].id
       /\ ScratchEntities[i].construction
  /\ ~EntitiesOf(heap, committed)[1].construction

\* C10: in an Active session the ids of the entities of the scratch sketch
\* are pairwise distinct.
C10_DistinctEntityIds ==
  activeSketch # 0 =>
    \A i, j \in DOMAIN ScratchEntities :
      i # j => ScratchEntities[i].id # ScratchEntities[j].id


(***************************************************************************)
(* DebounceSpec: FeatureEvaluator.rebuildDebounced over the timeouts of    *)
(* the JS runtime.  A timeout holds the closure it was set with (the       *)
(* feature list and the onComplete callback of the call); callbacks are    *)
(* named by the number of the call that passed them.                       *)
(***************************************************************************)
MaxCalls == 3
MaxTime == 4
\* The debounceMs every call passes, in ticks of the clock.
DebounceMs == 2

Runtime ==
  [timers |-> timers, debounceTimer |-> debounceTimer, nextTimerId |-> nextTimerId,
   now |-> now]

clearTimeout(rt, id) == [rt EXCEPT !.timers = {t \in @ : t.id # id}]

\* setTimeout: a fresh id, due after the delay; the id is returned in
\* nextTimerId.
setTimeout(rt, fs, onComplete, delay) ==
  LET id == rt.nextTimerId + 1
  IN [rt EXCEPT !.timers = @ \cup {[id |-> id, due |-> rt.now + delay,
                                    features |-> fs, onComplete |-> onComplete]},
                !.nextTimerId = id]

\* Faulty variant of rebuildDebounced: the pending timeout is not cleared.
rebuildDebouncedKeepsTimer(rt, fs, onComplete, debounceMs) ==
  LET set == setTimeout(rt, fs, onComplete, debounceMs)
  IN [set EXCEPT !.debounceTimer = set.nextTimerId]

rebuildDebounced(rt, fs, onComplete, debounceMs) ==
  LET cleared == IF rt.debounceTimer # 0 THEN clearTimeout(rt, rt.debounceTimer) ELSE rt
      set == setTimeout(cleared, fs, onComplete, debounceMs)
  IN [set EXCEPT !.debounceTimer = set.nextTimerId]

\* The feature lists the callers pass.
DebouncedLists ==
  { <<createPrimitiveFeature("A", "box", <<0, 0, 0>>)>>,
    <<createPrimitiveFeature("A", "box", <<0, 0, 0>>),
      createPrimitiveFeature("B", "sphere", <<5, 0, 0>>)>> }

DebounceInit ==
  /\ features = <<>>
  /\ nextBodyId = 0
  /\ nextHandle = 0
  /\ rebuildCount = 0
  /\ lastResult = NoResult
  /\ kernel = KernelReady
  /\ SketchUnused
  /\ DebounceUnused
  /\ ToolsUnused

\* A caller invokes rebuildDebounced; the call is logged with the callbacks
\* of the timeouts pending at that instant.
RebuildDebounced ==
  \E fs \in DebouncedLists :
    /\ Len(calls) < MaxCalls
    /\ now + DebounceMs <= MaxTime
    /\ LET rt == rebuildDebounced(Runtime, fs, Len(calls) + 1, DebounceMs)
       IN /\ timers' = rt.timers
          /\ debounceTimer' = rt.debounceTimer
          /\ nextTimerId' = rt.nextTimerId
    /\ calls' = Append(calls, [at |-> now, features |-> fs,
                               pending |-> {t.onComplete : t \in timers}])
    /\ UNCHANGED <<now, started, completions>>
    /\ UNCHANGED <<evalVars, sketchVars, toolVars>>

\* The runtime runs a timeout that is due: its callback calls rebuild,
\* which suspends on the Solid Kernel's initialisation.
TimerFires ==
  \E t \in timers :
    /\ t.due <= now
    /\ timers' = timers \ {t}
    /\ started' = Append(started, [onComplete |-> t.onComplete, features |-> t.features,
                                   at |-> now])
    /\ UNCHANGED <<debounceTimer, nextTimerId, now, calls, completions>>
    /\ UNCHANGED <<evalVars, sketchVars, toolVars>>

InFlight == {k \in DOMAIN started : \A j \in DOMAIN completions : completions[j].rebuild # k}

\* A started rebuild runs to its end and the callback continues with
\* onComplete(result).
RebuildCompletes ==
  \E k \in InFlight :
    LET result == rebuild(started[k].features, nextBodyId, nextHandle)
    IN /\ nextBodyId' = result.nextBodyId
       /\ nextHandle' = result.nextHandle
       /\ rebuildCount' = rebuildCount + 1
       /\ lastResult' = result
       /\ completions' = Append(completions, [rebuild |-> k,
                                              onComplete |-> started[k].onComplete,
                                              success |-> result.success])
       /\ UNCHANGED <<features, kernel, timers, debounceTimer, nextTimerId, now, calls, started>>
       /\ UNCHANGED <<sketchVars, toolVars>>

Tick ==
  /\ now < MaxTime
  /\ now' = now + 1
  /\ UNCHANGED <<timers, debounceTimer, nextTimerId, calls, started, completions>>
  /\ UNCHANGED <<evalVars, sketchVars, toolVars>>

DebounceNext ==
  \/ RebuildDebounced
  \/ TimerFires
  \/ RebuildCompletes
  \/ Tick

\* The event loop runs every due timeout and every resumed callback, and
\* the clock advances.
DebounceSpec ==
  /\ DebounceInit
  /\ [][DebounceNext]_vars
  /\ WF_vars(TimerFires)
  /\ WF_vars(RebuildCompletes)
  /\ WF_vars(Tick)

\* Call i was overtaken: a later call was made while its timeout was pending.
Overtaken(i) == \E j \in DOMAIN calls : i \in calls[j].pending

StartsOf(i) == {k \in DOMAIN started : started[k].onComplete = i}

CompletionsOf(i) == {j \in DOMAIN completions : completions[j].onComplete = i}

\* Nothing is pending or running any more.
Quiet == timers = {} /\ InFlight = {}

Coalesced ==
  /\ Cardinality(timers) <= 1
  /\ \A i \in DOMAIN calls :
       IF Overtaken(i)
       THEN StartsOf(i) = {} /\ CompletionsOf(i) = {}
       ELSE /\ Cardinality(StartsOf(i)) <= 1
            /\ Cardinality(CompletionsOf(i)) <= Cardinality(StartsOf(i))
            /\ \A k \in StartsOf(i) :
                 /\ started[k].features = calls[i].features
                 /\ started[k].at >= calls[i].at + DebounceMs

Settled ==
  /\ Quiet
  /\ \A i \in DOMAIN calls :
       ~Overtaken(i) => Cardinality(StartsOf(i)) = 1 /\ Cardinality(CompletionsOf(i)) = 1

\* C11: calls of rebuildDebounced made while the previous call's timeout is
\* pending coalesce: at most one timeout is ever pending, an overtaken call
\* starts no rebuild and its onComplete is never invoked, and the call that
\* is not overtaken starts exactly one rebuild, no earlier than debounceMs
\* after it and with its feature list, and has its onComplete invoked
\* exactly once.
C11_DebounceCoalesces == [] Coalesced /\ <>[] Settled

\* Two calls have coalesced and the second one's callback has run.
C11_Witness ==
  /\ Len(calls) >= 2
  /\ Overtaken(1)
  /\ ~Overtaken(2)
  /\ CompletionsOf(2) # {}


(***************************************************************************)
(* The geometry tools of the Sketch Engine as functions of the sketch they *)
(* are applied to.  Coordinates are whole numbers; a distance is compared  *)
(* through its square, which orders distances as the distances themselves. *)
(***************************************************************************)
\* SNAP_DISTANCE; the gridSize and snapEnabled are fields of the sketch.
SNAP_DISTANCE == 10

\* The entityId of the origin snap; 0 is the null entityId of a grid snap.
OriginId == 0 - 2

Squared(n) == n * n

\* distance(p1, p2), squared
Distance2(p1, p2) == Squared(p2[1] - p1[1]) + Squared(p2[2] - p1[2])

NoSnap == [present |-> FALSE, point |-> <<0, 0>>, entityId |-> 0, type |-> "grid"]

SnapResult(point, entityId, type) ==
  [present |-> TRUE, point |-> point, entityId |-> entityId, type |-> type]

\* getEntitySnapPoints.  The snap points of an arc other than its centre
\* lie at its angles, which the entities of this model do not carry.
getEntitySnapPoints(entity) ==
  LET sp(point, type) == [point |-> point, type |-> type]
      p == entity.p
      q == entity.q
      r == entity.radius
  IN CASE entity.type = "point" -> <<sp(p, "endpoint")>>
       [] entity.type = "line" ->
            <<sp(p, "endpoint"), sp(q, "endpoint"), sp(Middle(p, q), "midpoint")>>
       [] entity.type = "rectangle" ->
            <<sp(p, "endpoint"), sp(q, "endpoint"),
              sp(<<p[1], q[2]>>, "endpoint"), sp(<<q[1], p[2]>>, "endpoint"),
              sp(Middle(p, q), "center"),
              sp(<<Middle(p, q)[1], p[2]>>, "midpoint"),
              sp(<<Middle(p, q)[1], q[2]>>, "midpoint"),
              sp(<<p[1], Middle(p, q)[2]>>, "midpoint"),
              sp(<<q[1], Middle(p, q)[2]>>, "midpoint")>>
       [] entity.type = "circle" ->
            <<sp(p, "center"),
              sp(<<p[1] + r, p[2]>>, "quadrant"), sp(<<p[1] - r, p[2]>>, "quadrant"),
              sp(<<p[1], p[2] + r>>, "quadrant"), sp(<<p[1], p[2] - r>>, "quadrant")>>
       [] entity.type = "arc" -> <<sp(p, "center")>>
       [] OTHER -> <<>>

\* The inner loop of findSnapPoint over the snap points i.. of one entity:
\* near is the nearest snap so far with its squared distance.
RECURSIVE NearestOfEntity(_, _, _, _, _)
NearestOfEntity(position, id, sps, i, near) ==
  IF i > Len(sps) THEN near
  ELSE LET dist == Distance2(position, sps[i].point)
       IN NearestOfEntity(position, id, sps, i + 1,
            IF dist < near.distance
            THEN [snap |-> SnapResult(sps[i].point, id, sps[i].type), distance |-> dist]
            ELSE near)

\* The outer loop of findSnapPoint over the entities i.. of the sketch.
RECURSIVE NearestOfEntities(_, _, _, _, _)
NearestOfEntities(position, excludeEntityId, entities, i, near) ==
  IF i > Len(entities) THEN near
  ELSE NearestOfEntities(position, excludeEntityId, entities, i + 1,
         IF entities[i].id = excludeEntityId THEN near
         ELSE NearestOfEntity(position, entities[i].id,
                              getEntitySnapPoints(entities[i]), 1, near))

\* Faulty variant of findSnapPoint: the snap points of the excluded entity
\* are candidates as well.
findSnapPointOfAll(e, position, excludeEntityId) ==
  IF e.activeSketch = 0 THEN NoSnap
  ELSE LET ofEntities == NearestOfEntities(position, 0,
                           EntitiesOf(e.heap, e.activeSketch), 1,
                           [snap |-> NoSnap, distance |-> Squared(SNAP_DISTANCE)])
           gridSize == e.heap[e.activeSketch].gridSize
           gridPoint == <<RoundTo(position[1], gridSize), RoundTo(position[2], gridSize)>>
           gridDist == Distance2(position, gridPoint)
           nearest == IF e.heap[e.activeSketch].snapEnabled /\ gridDist < ofEntities.distance
                      THEN [snap |-> SnapResult(gridPoint, 0, "grid"), distance |-> gridDist]
                      ELSE ofEntities
           originDist == Distance2(position, <<0, 0>>)
       IN IF originDist < nearest.distance THEN SnapResult(<<0, 0>>, OriginId, "origin")
          ELSE nearest.snap

findSnapPoint(e, position, excludeEntityId) ==
  IF e.activeSketch = 0 THEN NoSnap
  ELSE LET ofEntities == NearestOfEntities(position, excludeEntityId,
                           EntitiesOf(e.heap, e.activeSketch), 1,
                           [snap |-> NoSnap, distance |-> Squared(SNAP_DISTANCE)])
           gridSize == e.heap[e.activeSketch].gridSize
           gridPoint == <<RoundTo(position[1], gridSize), RoundTo(position[2], gridSize)>>
           gridDist == Distance2(position, gridPoint)
           nearest == IF e.heap[e.activeSketch].snapEnabled /\ gridDist < ofEntities.distance
                      THEN [snap |-> SnapResult(gridPoint, 0, "grid"), distance |-> gridDist]
                      ELSE ofEntities
           originDist == Distance2(position, <<0, 0>>)
       IN IF originDist < nearest.distance THEN SnapResult(<<0, 0>>, OriginId, "origin")
          ELSE nearest.snap

(***************************************************************************)
(* ToolSpec: one tool applied to one sketch.  The query is the sketch (its *)
(* entity list, as an Active session holds it) with the tool's arguments;  *)
(* the answer is what the tool returned and the sketch afterwards.         *)
(***************************************************************************)
\* The engine in an Active session whose sketch holds the entities i.. of
\* the list besides those already there.
RECURSIVE SessionWith(_, _, _)
SessionWith(e, entities, i) ==
  IF i > Len(entities) THEN e
  ELSE LET made == Alloc(e.heap, entities[i])
       IN SessionWith([e EXCEPT !.heap = Push(made.heap, made.heap[e.activeSketch].entities,
                                              made.addr),
                                !.nextEntityId = Max(@, entities[i].id)],
                      entities, i + 1)

\* The session on a sketch with these entities and constraints, whose ids
\* are the first ones of the id generator.
SessionOn(entities, constraints) ==
  LET e == SessionWith(startSketch([heap |-> <<>>, activeSketch |-> 0, plane |-> Null,
                                    nextEntityId |-> Len(entities) + Len(constraints)],
                                   "XY").e, entities, 1)
  IN [e EXCEPT !.heap[e.heap[e.activeSketch].constraints].items = constraints]

\* That session where the sketch was loaded with these grid settings.
WithGrid(e, grid) ==
  [e EXCEPT !.heap[e.activeSketch].gridSize = grid.gridSize,
            !.heap[e.activeSketch].snapEnabled = grid.snapEnabled]

Query(tool, entities, id, point, distance) ==
  [tool |-> tool, entities |-> entities,
   constraints |-> IF entities = <<>> THEN <<>>
                   ELSE <<[Constraint("fixed", entities[1].id, NoConstraintRef,
                                      NoConstraintRef) EXCEPT !.id = Len(entities) + 1]>>,
   id |-> id, point |-> point, distance |-> distance,
   grid |-> [gridSize |-> GridSize, snapEnabled |-> TRUE]]

QuerySession == WithGrid(SessionOn(query.entities, query.constraints), query.grid)

\* What an operation of the engine answers: what it returned, the entity
\* it returned if any, and the sketch afterwards.
Outcome(tool, r) ==
  [tool |-> tool, outcome |-> r.outcome,
   returned |-> IF r.outcome = "entity" THEN <<r.e.heap[r.value]>> ELSE <<>>,
   entities |-> EntitiesOf(r.e.heap, r.e.activeSketch),
   constraints |-> ConstraintsOf(r.e.heap, r.e.activeSketch)]

\* Snapping: the pointer over sketches with snap points near the origin,
\* near a grid intersection and away from both.
SnapCoordinates == {0 - 6, 0 - 3, 0, 3, 6, 12}

SnapSketches ==
  { <<>>,
    <<EntityObject(1, "point", <<2, 0>>, <<2, 0>>, 0)>>,
    <<EntityObject(1, "line", <<0, 0>>, <<4, 0>>, 0),
      EntityObject(2, "circle", <<12, 12>>, <<12, 12>>, 2)>>,
    <<EntityObject(1, "rectangle", <<2, 2>>, <<6, 4>>, 0)>> }

\* The grid settings of the sketch: those of createSketchData, and those a
\* sketch can be loaded with.
GridSettings ==
  { [gridSize |-> GridSize, snapEnabled |-> TRUE],
    [gridSize |-> GridSize, snapEnabled |-> FALSE],
    [gridSize |-> 4 * GridSize, snapEnabled |-> TRUE] }

SnapQueries ==
  { [Query("findSnapPoint", entities, id, <<x, y>>, 0) EXCEPT !.grid = grid] :
      entities \in SnapSketches, id \in {0, 1}, x \in SnapCoordinates, y \in SnapCoordinates,
      grid \in GridSettings }

\* Trimming: a line of length 20 crossed in its middle by another line, cut
\* twice by a circle or by a rectangle, or crossed by nothing; the click at
\* places along and beside it.  Every crossing has whole coordinates.
LongLine == EntityObject(1, "line", <<0, 0>>, <<20, 0>>, 0)

TrimSketches ==
  { <<LongLine, EntityObject(2, "line", <<10, 0 - 5>>, <<10, 5>>, 0)>>,
    <<LongLine, EntityObject(2, "circle", <<10, 0>>, <<10, 0>>, 5)>>,
    <<EntityObject(2, "rectangle", <<4, 0 - 2>>, <<8, 2>>, 0), LongLine>>,
    <<LongLine, EntityObject(2, "line", <<10, 0 - 5>>, <<10, 5>>, 0),
      EntityObject(3, "circle", <<10, 0>>, <<10, 0>>, 5)>>,
    <<LongLine, EntityObject(2, "line", <<0, 5>>, <<20, 5>>, 0)>>,
    <<LongLine>> }

TrimQueries ==
  { Query("trimLineAt", entities, id, <<x, y>>, 0) :
      entities \in TrimSketches, id \in {1, 2, UnknownEntityId},
      x \in {2, 5, 6, 10, 12, 15, 18}, y \in {0, 1} }

\* The example of the trim tool: the line crossed at t = 0.5 and clicked
\* near t = 0.25.
TrimExample ==
  Query("trimLineAt", <<LongLine, EntityObject(2, "line", <<10, 0 - 5>>, <<10, 5>>, 0)>>,
        1, <<5, 0>>, 0)

\* Offsetting: a circle, a rectangle given by either pair of opposite
\* corners and a line, one of the lines of length zero, offset by a distance
\* that fits inside them and one that does not, the reference point inside,
\* outside and on them.
OffsetSketches ==
  { <<EntityObject(1, "circle", <<0, 0>>, <<0, 0>>, 5),
      EntityObject(2, "rectangle", <<0, 0>>, <<10, 4>>, 0),
      EntityObject(3, "line", <<0, 0>>, <<20, 0>>, 0)>>,
    <<EntityObject(1, "circle", <<4, 2>>, <<4, 2>>, 1),
      EntityObject(2, "rectangle", <<10, 0>>, <<0, 4>>, 0),
      EntityObject(3, "line", <<0, 0>>, <<0, 6>>, 0)>>,
    <<EntityObject(1, "circle", <<0, 0>>, <<0, 0>>, 2),
      EntityObject(2, "rectangle", <<0, 0>>, <<4, 3>>, 0),
      EntityObject(3, "line", <<3, 3>>, <<3, 3>>, 0)>> }

OffsetTools == {"offsetLine", "offsetCircle", "offsetRectangle"}

OffsetQueries ==
  { Query(tool, entities, id, point, distance) :
      tool \in OffsetTools, entities \in OffsetSketches, id \in {1, 2, 3, UnknownEntityId},
      point \in {<<10, 0>>, <<2, 0>>, <<5, 2>>, <<0, 0 - 8>>, <<5, 0>>, <<20, 20>>},
      distance \in {2, 6} }

\* Profile detection.  A query carries the entities, the steps to the
\* sketch unit, the ids generateProfileId draws and what the sketch shows:
\* a closed square of four lines, that square with one end point moved
\* away, or other geometry.
ProfileQuery(shape, entities, unit, ids) ==
  [tool |-> "detectProfiles", shape |-> shape, entities |-> entities, unit |-> unit,
   ids |-> ids]

\* The four sides of the square of side 10 with its lower left corner at
\* corner, as pairs of end points, counter-clockwise from the lower side.
SquareSides(corner, unit) ==
  LET a == <<corner, corner>>
      b == <<corner + 10 * unit, corner>>
      c == <<corner + 10 * unit, corner + 10 * unit>>
      d == <<corner, corner + 10 * unit>>
  IN <<<<a, b>>, <<b, c>>, <<c, d>>, <<d, a>>>>

\* The square drawn as four lines: the k-th line is side order[k], from its
\* second end point to its first where flipped.
SquareLines(sides, order, flipped) ==
  [k \in 1..4 |->
     IF order[k] \in flipped
     THEN EntityObject(k, "line", sides[order[k]][2], sides[order[k]][1], 0)
     ELSE EntityObject(k, "line", sides[order[k]][1], sides[order[k]][2], 0)]

\* Squares on whole units and, in quarters of a unit, on half units.
SquareGrids == {[unit |-> 1, corner |-> 0], [unit |-> 4, corner |-> 2]}

SquareQueries ==
  { ProfileQuery("square", SquareLines(SquareSides(g.corner, g.unit), order, flipped),
                 g.unit, <<1, 2, 3, 4>>) :
      g \in SquareGrids,
      order \in {o \in [1..4 -> 1..4] : \A i, j \in 1..4 : i # j => o[i] # o[j]},
      flipped \in SUBSET (1..4) }

\* Displacements of an end point, in steps: each is longer than the
\* tolerance and takes the point to no other corner of the square.
Moves(unit) ==
  IF unit = 1 THEN {<<2, 0>>, <<0, 0 - 2>>, <<2, 2>>, <<0 - 3, 1>>}
  ELSE {<<3, 3>>, <<5, 0>>, <<0, 0 - 5>>, <<0 - 5, 0 - 5>>}

Moved(line, end, by) ==
  IF end = 1 THEN [line EXCEPT !.p = <<@[1] + by[1], @[2] + by[2]>>]
  ELSE [line EXCEPT !.q = <<@[1] + by[1], @[2] + by[2]>>]

OpenedQueries ==
  UNION { { ProfileQuery("opened",
                         [SquareLines(SquareSides(g.corner, g.unit), <<1, 2, 3, 4>>, flipped)
                            EXCEPT ![k] = Moved(@, end, by)],
                         g.unit, <<1, 2, 3, 4>>) :
              flipped \in {{}, {2, 3}}, k \in 1..4, end \in 1..2, by \in Moves(g.unit) } :
          g \in SquareGrids }

\* Other geometry: circles, rectangles given by either pair of corners, a
\* triangle of lines, a line that dangles from it and an arc, a square with
\* a diagonal, a square with a line that ends in one of its corners, and an
\* arc with its chord and a triangle on the chord, any of them construction
\* geometry.
ProfileSketches ==
  { <<EntityObject(1, "rectangle", <<0, 0>>, <<10, 10>>, 0)>>,
    <<EntityObject(1, "circle", <<5, 5>>, <<5, 5>>, 3),
      EntityObject(2, "rectangle", <<10, 0>>, <<0, 6>>, 0),
      EntityObject(3, "circle", <<20, 0>>, <<20, 0>>, 1)>>,
    <<EntityObject(1, "line", <<0, 0>>, <<8, 6>>, 0),
      EntityObject(2, "rectangle", <<10, 10>>, <<2, 4>>, 0),
      EntityObject(3, "line", <<8, 6>>, <<8, 0>>, 0),
      EntityObject(4, "circle", <<4, 2>>, <<4, 2>>, 2),
      EntityObject(5, "line", <<0, 0>>, <<8, 0>>, 0)>>,
    <<EntityObject(1, "line", <<0, 0>>, <<0 - 4, 0>>, 0),
      EntityObject(2, "line", <<0, 0>>, <<0, 6>>, 0),
      EntityObject(3, "line", <<0, 6>>, <<8, 0>>, 0),
      EntityObject(4, "line", <<8, 0>>, <<0, 0>>, 0),
      EntityObject(5, "arc", <<20, 20>>, <<20, 20>>, 5)>>,
    <<EntityObject(1, "line", <<0, 0>>, <<10, 0>>, 0),
      EntityObject(2, "line", <<10, 10>>, <<10, 0>>, 0),
      EntityObject(3, "line", <<10, 10>>, <<0, 10>>, 0),
      EntityObject(4, "line", <<0, 0>>, <<0, 10>>, 0),
      EntityObject(5, "line", <<0, 0>>, <<10, 10>>, 0)>>,
    <<EntityObject(1, "line", <<0 - 4, 0>>, <<0, 0>>, 0),
      EntityObject(2, "line", <<10, 0>>, <<0, 0>>, 0),
      EntityObject(3, "line", <<10, 0>>, <<10, 10>>, 0),
      EntityObject(4, "line", <<10, 10>>, <<0, 10>>, 0),
      EntityObject(5, "line", <<0, 10>>, <<0, 0>>, 0)>>,
    <<EntityObject(1, "arc", <<0, 0>>, <<0, 0>>, 5),
      EntityObject(2, "line", <<5, 0>>, <<0, 5>>, 0),
      EntityObject(3, "line", <<0, 5>>, <<0 - 5, 0>>, 0),
      EntityObject(4, "line", <<0 - 5, 0>>, <<5, 0>>, 0)>> }

MixedQueries ==
  { ProfileQuery("mixed",
                 [i \in DOMAIN entities |->
                    [entities[i] EXCEPT !.construction = (i \in construction)]],
                 1, ids) :
      entities \in ProfileSketches, construction \in SUBSET (1..5),
      ids \in {<<1, 2, 3, 4>>, <<4, 3, 2, 1>>} }

ProfileQueries == SquareQueries \cup OpenedQueries \cup MixedQueries

Queries == SnapQueries \cup TrimQueries \cup OffsetQueries \cup ProfileQueries

ToolInit ==
  /\ features = <<>>
  /\ nextBodyId = 0
  /\ nextHandle = 0
  /\ rebuildCount = 0
  /\ lastResult = NoResult
  /\ kernel = KernelReady
  /\ SketchUnused
  /\ DebounceUnused
  /\ query \in Queries
  /\ answer = NoQuery

Asked(tool) == query.tool = tool /\ answer = NoQuery

Answer(a) ==
  /\ answer' = a
  /\ UNCHANGED <<query, evalVars, sketchVars, debounceVars>>

FindSnapPoint ==
  /\ Asked("findSnapPoint")
  /\ Answer([tool |-> "findSnapPoint",
             snap |-> findSnapPoint(QuerySession, query.point, query.id)])

Trim ==
  /\ Asked("trimLineAt")
  /\ Answer(Outcome("trimLineAt", trimLineAt(QuerySession, query.id, query.point)))

OffsetOfLine ==
  /\ Asked("offsetLine")
  /\ Answer(Outcome("offsetLine",
                    offsetLine(QuerySession, query.id, query.distance, query.point)))

OffsetOfCircle ==
  /\ Asked("offsetCircle")
  /\ Answer(Outcome("offsetCircle",
                    offsetCircle(QuerySession, query.id, query.distance, query.point)))

OffsetOfRectangle ==
  /\ Asked("offsetRectangle")
  /\ Answer(Outcome("offsetRectangle",
                    offsetRectangle(QuerySession, query.id, query.distance, query.point)))

\* detectProfiles is called, and called again while generateProfileId
\* draws other ids.  It reads the entities and writes none of them: they
\* are after the calls what they were.
DetectProfiles ==
  /\ Asked("detectProfiles")
  /\ Answer([tool |-> "detectProfiles",
             profiles |-> detectProfiles(query.entities, query.unit, query.ids),
             again |-> detectProfiles(query.entities, query.unit, Reverse(query.ids)),
             entities |-> query.entities])

ToolNext ==
  \/ FindSnapPoint
  \/ Trim
  \/ OffsetOfLine
  \/ OffsetOfCircle
  \/ OffsetOfRectangle
  \/ DetectProfiles

ToolSpec == ToolInit /\ [][ToolNext]_vars

\* C12: wherever the pointer is within SNAP_DISTANCE of the sketch origin,
\* findSnapPoint returns the origin snap, whatever entity snap points and
\* grid intersections are in range.
C12_OriginPrecedence ==
  (answer.tool = "findSnapPoint" /\ Distance2(query.point, <<0, 0>>) < Squared(SNAP_DISTANCE))
    => answer.snap = SnapResult(<<0, 0>>, OriginId, "origin")


\* The line a trim or offset query names, as the sketch holds it.
Named == query.entities[CHOOSE i \in DOMAIN query.entities : query.entities[i].id = query.id]

\* The sketch of the query without the named entity.
Others ==
  SeqFilterIdx(query.entities, {i \in DOMAIN query.entities : query.entities[i].id # query.id}, 1)

\* leftT and rightT as the trim tool is described: the largest intersection
\* parameter below the click's and the smallest one above it.
ExpectedCut ==
  LET ts == Range(LineIntersections(Named, query.entities, 1, <<>>))
      clickT == pointToLineDistance(query.point, Named.p, Named.q)
      below == {t \in ts : Below(t, clickT)}
      above == {t \in ts : Below(clickT, t)}
  IN [leftT |-> IF below = {} THEN Fraction(0, 1)
                ELSE CHOOSE t \in below : \A u \in below : ~Below(t, u),
      rightT |-> IF above = {} THEN Fraction(1, 1)
                 ELSE CHOOSE t \in above : \A u \in above : ~Below(u, t)]

\* The segments the trim is to leave, as pairs of end points.
ExpectedPieces ==
  LET cut == ExpectedCut
  IN (IF 1000 * cut.leftT.n > cut.leftT.d
      THEN <<[p |-> Named.p, q |-> PointAt(Named.p, Named.q, cut.leftT)]>> ELSE <<>>) \o
     (IF 1000 * cut.rightT.n < 999 * cut.rightT.d
      THEN <<[p |-> PointAt(Named.p, Named.q, cut.rightT), q |-> Named.q]>> ELSE <<>>)

\* C13: after a successful trimLineAt the trimmed line is gone, every other
\* entity is as it was and in its place, and the only new entities are the
\* line from the start to the intersection left of the click (if that lies
\* beyond t = 0.001) and the line from the intersection right of the click
\* to the end (if that lies before t = 0.999); the line (0,0)-(20,0)
\* crossed at t = 0.5 and clicked near t = 0.25 leaves (10,0)-(20,0) only.
C13_TrimResult ==
  (answer.tool = "trimLineAt" /\ answer.outcome = "true") =>
    LET after == answer.entities
        kept == Len(Others)
    IN /\ \A i \in DOMAIN after : after[i].id # query.id
       /\ Len(after) = kept + Len(ExpectedPieces)
       /\ \A i \in 1..kept : after[i] = Others[i]
       /\ \A j \in DOMAIN ExpectedPieces :
            /\ after[kept + j].type = "line"
            /\ after[kept + j].p = ExpectedPieces[j].p
            /\ after[kept + j].q = ExpectedPieces[j].q
            /\ \A i \in DOMAIN query.entities : after[kept + j].id # query.entities[i].id
       /\ query = TrimExample =>
            /\ Len(after) = 2
            /\ after[2].p = <<10, 0>>
            /\ after[2].q = <<20, 0>>

\* The example has been trimmed.
C13_Witness ==
  /\ query = TrimExample
  /\ answer.tool = "trimLineAt"
  /\ answer.outcome = "true"


\* The query names an entity of the sketch, of this type.
Names(type) ==
  \E i \in DOMAIN query.entities :
    /\ query.entities[i].id = query.id
    /\ \A j \in 1..(i - 1) : query.entities[j].id # query.id
    /\ query.entities[i].type = type

\* The radius the offset of the named circle is to have, if the reference
\* point is off the circle.
ExpectedRadius ==
  LET away == Distance2(query.point, Named.p)
  IN IF away > Squared(Named.radius) THEN Named.radius + query.distance
     ELSE Named.radius - query.distance

\* The bounds [minX, minY, maxX, maxY] of a rectangle.
Bounds(rect) ==
  <<Min(rect.p[1], rect.q[1]), Min(rect.p[2], rect.q[2]),
    Max(rect.p[1], rect.q[1]), Max(rect.p[2], rect.q[2])>>

\* The bounds the offset of the named rectangle is to have, if the reference
\* point is off its border.
ExpectedBounds ==
  LET b == Bounds(Named)
      inside == /\ query.point[1] > b[1] /\ query.point[1] < b[3]
                /\ query.point[2] > b[2] /\ query.point[2] < b[4]
      d == IF inside THEN 0 - query.distance ELSE query.distance
  IN <<b[1] - d, b[2] - d, b[3] + d, b[4] + d>>

OnCircle == Distance2(query.point, Named.p) = Squared(Named.radius)

OnBorder ==
  LET b == Bounds(Named)
  IN /\ query.point[1] >= b[1] /\ query.point[1] <= b[3]
     /\ query.point[2] >= b[2] /\ query.point[2] <= b[4]
     /\ \/ query.point[1] \in {b[1], b[3]}
        \/ query.point[2] \in {b[2], b[4]}

\* C14: offsetCircle returns a concentric circle of radius r + d for a
\* reference point outside the circle and r - d for one inside it;
\* offsetRectangle returns the rectangle with all four sides moved outward by
\* d for a reference point outside the bounds and inward by d for one
\* inside; both return null when the radius or a side would collapse.
C14_OffsetDirection ==
  /\ (answer.tool = "offsetCircle" /\ Names("circle") /\ ~OnCircle) =>
       IF ExpectedRadius <= 0 THEN answer.outcome = "null"
       ELSE /\ answer.outcome = "entity"
            /\ answer.returned[1].type = "circle"
            /\ answer.returned[1].p = Named.p
            /\ answer.returned[1].radius = ExpectedRadius
  /\ (answer.tool = "offsetRectangle" /\ Names("rectangle") /\ ~OnBorder) =>
       IF ExpectedBounds[3] - ExpectedBounds[1] <= 0 \/ ExpectedBounds[4] - ExpectedBounds[2] <= 0
       THEN answer.outcome = "null"
       ELSE /\ answer.outcome = "entity"
            /\ answer.returned[1].type = "rectangle"
            /\ Bounds(answer.returned[1]) = ExpectedBounds

\* The circle of radius 5 has been offset by 2 from a reference point 10
\* away from its centre.
C14_Witness ==
  /\ answer.tool = "offsetCircle"
  /\ Names("circle")
  /\ Named.radius = 5
  /\ query.distance = 2
  /\ query.point = <<10, 0>>
  /\ answer.outcome = "entity"
  /\ answer.returned[1].radius = 7

IdsIn(items) == {items[i].id : i \in DOMAIN items}

\* C15: a successful offsetLine, offsetCircle or offsetRectangle appends one
\* entity with a fresh id to the entity list and leaves every entity that
\* was there, their order and every constraint as they were.
C15_OffsetFrame ==
  (answer.tool \in OffsetTools /\ answer.outcome = "entity") =>
    /\ answer.entities = Append(query.entities, answer.returned[1])
    /\ answer.returned[1].id \notin IdsIn(query.entities) \cup IdsIn(query.constraints)
    /\ answer.constraints = query.constraints

\* A line has been offset in a sketch that carries a constraint.
C15_Witness ==
  /\ answer.tool = "offsetLine"
  /\ answer.outcome = "entity"
  /\ query.constraints # <<>>
  /\ Len(answer.entities) = Len(query.entities) + 1


\* The entities of the query of this type that are no construction
\* geometry, in list order.
Drawn(type) ==
  SeqFilterIdx(query.entities,
               {i \in DOMAIN query.entities :
                  ~query.entities[i].construction /\ query.entities[i].type = type}, 1)

\* C16: every circle and every rectangle that is no construction geometry
\* has one profile of its own, the circles' first and the rectangles' next,
\* ahead of the profiles of line and arc loops; a rectangle's profile is its
\* four corners counter-clockwise from (minX, minY) with area width * height
\* and bounding box [min, max] whatever the order of its corners (100 for
\* the corners (0,0) and (10,10)); a circle's bounding box is
\* [center - r, center + r].
C16_CircleAndRectangleProfiles ==
  answer.tool = "detectProfiles" =>
    LET circles == Drawn("circle")
        rectangles == Drawn("rectangle")
        profiles == answer.profiles
    IN /\ Len(profiles) >= Len(circles) + Len(rectangles)
       /\ \A i \in DOMAIN circles :
            LET c == circles[i]
            IN /\ profiles[i].boundingBox.min = Hundredths(<<c.p[1] - c.radius, c.p[2] - c.radius>>)
               /\ profiles[i].boundingBox.max = Hundredths(<<c.p[1] + c.radius, c.p[2] + c.radius>>)
               /\ Len(profiles[i].outerLoop) = 32
       /\ \A i \in DOMAIN rectangles :
            LET b == Bounds(rectangles[i])
                profile == profiles[Len(circles) + i]
            IN /\ profile.outerLoop =
                    <<Hundredths(<<b[1], b[2]>>), Hundredths(<<b[3], b[2]>>),
                      Hundredths(<<b[3], b[4]>>), Hundredths(<<b[1], b[4]>>)>>
               /\ profile.area = 100 * (b[3] - b[1]) * (b[4] - b[2])
               /\ profile.boundingBox = [min |-> Hundredths(<<b[1], b[2]>>),
                                         max |-> Hundredths(<<b[3], b[4]>>)]
       /\ \A k \in (Len(circles) + Len(rectangles) + 1)..Len(profiles) :
            /\ Len(profiles[k].outerLoop) < 32
            /\ \A i \in DOMAIN rectangles :
                 profiles[k].outerLoop # profiles[Len(circles) + i].outerLoop
       /\ query.entities = <<EntityObject(1, "rectangle", <<0, 0>>, <<10, 10>>, 0)>> =>
            Len(profiles) = 1 /\ profiles[1].area = 100 * 100

\* Circles, a rectangle given by its upper left and lower right corners and
\* a loop of lines have been detected together.
C16_Witness ==
  /\ answer.tool = "detectProfiles"
  /\ Len(Drawn("circle")) >= 1
  /\ Len(Drawn("rectangle")) >= 1
  /\ Len(answer.profiles) > Len(Drawn("circle")) + Len(Drawn("rectangle"))


\* The corners of the square of the query, in hundredths.
SquareCorners ==
  LET g == CHOOSE g \in SquareGrids : g.unit = query.unit
  IN {Hundredths(SquareSides(g.corner, g.unit)[k][1]) : k \in 1..4}

\* One profile: the four corners of the square counter-clockwise, area 100.
SquareFound ==
  /\ Len(answer.profiles) = 1
  /\ Len(answer.profiles[1].outerLoop) = 4
  /\ Range(answer.profiles[1].outerLoop) = SquareCorners
  /\ TwiceSignedArea(answer.profiles[1].outerLoop, 1) > 0
  /\ answer.profiles[1].area = 100 * 100 * query.unit * query.unit

\* C17: four lines whose end points coincide pairwise in a closed square of
\* side 10 give one profile, a counter-clockwise loop of 4 points with area
\* 100, whatever the order of the lines in the entity list and the
\* direction of each; with one end point moved away from its partner by
\* more than the merge tolerance 1.0 they give no profile.
C17_SquareOfLines ==
  answer.tool = "detectProfiles" =>
    /\ query.shape = "square" => SquareFound
    /\ query.shape = "opened" => answer.profiles = <<>>


\* The profiles without their ids.
Geometry(profiles) == [k \in DOMAIN profiles |-> [profiles[k] EXCEPT !.id = 0]]

WithoutConstruction(entities) ==
  SeqFilterIdx(entities, {i \in DOMAIN entities : ~entities[i].construction}, 1)

\* C19: construction entities take no part in profile detection: the
\* profiles of an entity list are, ids aside, those of the list without its
\* construction entities, so that a circle, a rectangle or a loop with an
\* edge marked as construction has no profile.
C19_ConstructionExcluded ==
  answer.tool = "detectProfiles" =>
    /\ Geometry(answer.profiles) =
         Geometry(detectProfiles(WithoutConstruction(query.entities), query.unit, query.ids))
    /\ WithoutConstruction(query.entities) = <<>> => answer.profiles = <<>>
    /\ Cardinality({k \in DOMAIN answer.profiles : Len(answer.profiles[k].outerLoop) = 32})
         = Len(Drawn("circle"))

\* A sketch with a circle and a line of a triangle marked as construction
\* and a rectangle that is not has been detected: the rectangle's profile
\* is the only one.
C19_Witness ==
  /\ answer.tool = "detectProfiles"
  /\ \E i \in DOMAIN query.entities :
       query.entities[i].construction /\ query.entities[i].type = "circle"
  /\ \E i \in DOMAIN query.entities :
       query.entities[i].construction /\ query.entities[i].type = "line"
  /\ Len(Drawn("rectangle")) = 1
  /\ Len(answer.profiles) = 1

\* The loops of lines and arcs of the query as loopToPoints returns them.
LoopsAsFound ==
  LET edges == buildEdgeList(WithoutConstruction(query.entities))
      loops == findClosedLoops(buildGraph(edges, 1, <<>>, query.unit))
  IN [i \in DOMAIN loops |-> loopToPoints(loops[i], edges, query.unit)]

\* C20: every profile detectProfiles returns, of a circle, of a rectangle
\* or of a loop of lines and arcs, has a counter-clockwise outer loop, one
\* whose shoelace signed area is not negative, and no inner loops.
C20_CounterClockwise ==
  answer.tool = "detectProfiles" =>
    \A k \in DOMAIN answer.profiles :
      /\ TwiceSignedArea(answer.profiles[k].outerLoop, 1) >= 0
      /\ answer.profiles[k].innerLoops = <<>>

\* A circle, a rectangle and a loop of lines that was followed clockwise
\* have been detected together.
C20_Witness ==
  /\ answer.tool = "detectProfiles"
  /\ Len(Drawn("circle")) >= 1
  /\ Len(Drawn("rectangle")) >= 1
  /\ \E i \in DOMAIN LoopsAsFound :
       Len(LoopsAsFound[i]) >= 3 /\ TwiceSignedArea(LoopsAsFound[i], 1) < 0
  /\ Len(answer.profiles) = Len(Drawn("circle")) + Len(Drawn("rectangle")) + 1


\* The context after the loop of rebuild has handled feature i.
ContextAfter(fs, i) == RebuildStep(fs[i], ContextBefore(fs, i))

\* C21: a feature whose evaluation throws, at whatever point, leaves the
\* body map as it was before the feature was attempted: no body an earlier
\* feature computed has been removed or replaced.
C21_FailureKeepsBodies ==
  rebuildCount = 1 =>
    \A i \in Unsuppressed(features) :
      features[i].id \in DOMAIN lastResult.errors =>
        ContextAfter(features, i).bodies = ContextBefore(features, i).bodies


\* The sketch feature an Extrude names.
SketchOf(fs, i) == fs[FindIndex(fs, fs[i].sketchRef)]

\* Feature i is a join or cut Extrude that is evaluated without an error
\* on a target body that resolves.
Combines(fs, i) ==
  /\ fs[i].type = "extrude"
  /\ fs[i].mode \in {"join", "cut"}
  /\ fs[i].targetBodyRef # NoRef
  /\ ~TargetUnresolved(fs, i)
  /\ ~Throws(fs, i)

\* The Solid Kernel calls that extrude one profile and place it.
PlacementCalls(feature, sketchFeature) ==
  1 + (IF feature.direction \in {"reverse", "symmetric"} THEN 1 ELSE 0)
    + transformToPlane(sketchFeature.plane, sketchFeature.planeOffset)

\* C22: a join or cut Extrude whose target body resolves combines every
\* profile of the sketch with the target body; the result keeps the
\* target's body id, one body with that id is in the body map afterwards,
\* and a later reference to the target feature resolves to it.
C22_CombinesEveryProfile ==
  rebuildCount = 1 =>
    \A i \in Unsuppressed(features) :
      Combines(features, i) =>
        LET before == ContextBefore(features, i)
            after == ContextAfter(features, i)
            sketchFeature == SketchOf(features, i)
            targetId == findBodyIdForFeature(features[i].targetBodyRef, before)
        IN /\ after.calls - before.calls =
                Len(sketchFeature.profiles) * (PlacementCalls(features[i], sketchFeature) + 1)
           /\ BodyIds(after.featureResults[features[i].id]) = {targetId}
           /\ Cardinality({k \in DOMAIN after.bodies : after.bodies[k].bodyId = targetId}) = 1
           /\ BodyIds(after.bodies) = BodyIds(before.bodies)
           /\ findBodyIdForFeature(features[i].targetBodyRef, after) = targetId
           /\ BodiesGet(after.bodies, targetId).originFeatureId = features[i].id


\* Feature i is a join or cut Extrude over a sketch with profiles that has
\* no target body to combine with when the loop reaches it.
FallsBack(fs, i) ==
  /\ fs[i].type = "extrude"
  /\ fs[i].mode \in {"join", "cut"}
  /\ ~SketchUnresolved(fs, i)
  /\ ~Throws(fs, i)
  /\ fs[i].targetBodyRef = NoRef \/ TargetUnresolved(fs, i)

\* The results of feature i are fresh bodies of its own, one per profile of
\* its sketch, and the bodies that were in the map are as they were.
OneNewBodyPerProfile(fs, i) ==
  LET before == ContextBefore(fs, i)
      after == ContextAfter(fs, i)
      results == after.featureResults[fs[i].id]
  IN /\ Len(results) = Len(SketchOf(fs, i).profiles)
     /\ \A k \in DOMAIN results :
          /\ results[k].originFeatureId = fs[i].id
          /\ results[k].bodyId \notin BodyIds(before.bodies)
          /\ results[k].bodyId > before.nextBodyId
          /\ \A j \in DOMAIN results : j # k => results[j].bodyId # results[k].bodyId
     /\ after.bodies = before.bodies \o results

\* C23: a join or cut Extrude without a target body that resolves (no
\* targetBodyRef, or one whose feature has no live body) falls back to
\* 'new': one fresh body per profile, tagged with the Extrude's id, in cut
\* mode as in join mode.
C23_FallsBackToNew ==
  rebuildCount = 1 =>
    \A i \in Unsuppressed(features) :
      FallsBack(features, i) => OneNewBodyPerProfile(features, i)


\* Feature i is a new-mode Extrude that is evaluated without an error.
ExtrudesNew(fs, i) ==
  /\ fs[i].type = "extrude"
  /\ fs[i].mode = "new"
  /\ ~SketchUnresolved(fs, i)
  /\ ~Throws(fs, i)

BooleanDone(fs, i) == fs[i].type = "boolean" /\ ~fs[i].suppressed /\ ~Throws(fs, i)

\* The ids of the bodies feature i has taken out of the body map.
ConsumedBy(fs, i) ==
  BodyIds(ContextBefore(fs, i).bodies) \ BodyIds(ContextAfter(fs, i).bodies)

\* When the loop reaches feature i, the feature named ref has no live body
\* of its own: it is suppressed, it is not earlier in the list, it produced
\* no body or threw, or an earlier Boolean took it as its target or tool.
NoLiveBody(fs, i, ref) ==
  LET k == FindIndex(fs, ref)
      before == ContextBefore(fs, i)
  IN \/ k = 0 \/ k >= i
     \/ fs[k].suppressed
     \/ ref \notin DOMAIN before.featureResults
     \/ before.featureResults[ref] = <<>>
     \/ \E j \in 1..(i - 1) :
          BooleanDone(fs, j) /\ ref \in {fs[j].targetBodyRef, fs[j].toolBodyRef}

\* C25: a Boolean consumes live bodies of earlier features only: where its
\* target or tool feature is suppressed, comes later in the list, produced
\* no body or threw, or had its body consumed by an earlier Boolean, the
\* Boolean has an error under its own id and leaves the body map as it
\* was; no body is consumed by two Booleans of one rebuild.
C25_BooleanConsumesLiveBodies ==
  rebuildCount = 1 =>
    /\ \A i \in Unsuppressed(features) :
         (/\ features[i].type = "boolean"
          /\ \/ NoLiveBody(features, i, features[i].targetBodyRef)
             \/ NoLiveBody(features, i, features[i].toolBodyRef)) =>
           /\ features[i].id \in DOMAIN lastResult.errors
           /\ ContextAfter(features, i).bodies = ContextBefore(features, i).bodies
    /\ \A i, j \in Unsuppressed(features) :
         (i < j /\ BooleanDone(features, i) /\ BooleanDone(features, j)) =>
           /\ ConsumedBy(features, i) # {}
           /\ ConsumedBy(features, i) \cap ConsumedBy(features, j) = {}
           /\ ConsumedBy(features, i) \cap BodyIds(ContextBefore(features, j).bodies) = {}

\* A Boolean has consumed the body of a primitive, and a later Boolean that
\* names the primitive as its tool has an error.
C25_Witness ==
  /\ rebuildCount = 1
  /\ \E i, j \in Unsuppressed(features) :
       /\ i < j
       /\ BooleanDone(features, i)
       /\ features[j].type = "boolean"
       /\ features[j].toolBodyRef \in {features[i].targetBodyRef, features[i].toolBodyRef}
       /\ features[j].id \in DOMAIN lastResult.errors
       /\ Len(lastResult.bodies) = 1


\* No feature of the list at an index >= i carries a cached result.
CacheCleared(after, i) == \A k \in DOMAIN after : k >= i => ~after[k].cached.present

\* C26: invalidation clears the cache: after updateFeature, updateParameter,
\* suppressFeature, markFeatureDirty or deleteFeature on the feature at
\* index i, and after reorderFeature with i the lower of the old and the
\* new index, no feature at an index >= i still carries a cached result.
C26_InvalidationClearsCache ==
  \A i \in DOMAIN features :
    LET id == features[i].id
    IN /\ \A updates \in FeatureUpdates(id) :
            CacheCleared(updateFeature(features, id, updates), i)
       /\ \A edit \in ParameterEdits :
            CacheCleared(updateParameter(features, id, edit[1], edit[2]), i)
       /\ \A suppressed \in BOOLEAN :
            CacheCleared(suppressFeature(features, id, suppressed), i)
       /\ CacheCleared(markFeatureDirty(features, id), i)
       /\ CacheCleared(deleteFeature(features, id), i)
       /\ \A newIndex \in (1..(Len(features) + 1)) \ {i} :
            CacheCleared(reorderFeature(features, id, newIndex), Min(i, newIndex))


\* The graph of the lines and arcs of the query that are no construction
\* geometry, and the cycles findClosedLoops comes upon in it before
\* filterSimpleCycles.
QueryEdges == buildEdgeList(WithoutConstruction(query.entities))

QueryGraph == buildGraph(QueryEdges, 1, <<>>, query.unit)

Discovered == Unvisited(CyclesFrom(QueryGraph, 1))

\* The number of ends edge set S has at node n.
DegreeIn(nodes, n, S) ==
  Cardinality({k \in DOMAIN nodes[n].edges : nodes[n].edges[k].edgeIndex \in S})

\* The nodes that are joined to a node of seen by edges of S.
RECURSIVE Joined(_, _, _)
Joined(nodes, S, seen) ==
  LET next == seen \cup {n \in DOMAIN nodes :
                           \E m \in seen : \E k \in DOMAIN nodes[m].edges :
                             /\ nodes[m].edges[k].edgeIndex \in S
                             /\ nodes[m].edges[k].otherNodeIndex = n}
  IN IF next = seen THEN seen ELSE Joined(nodes, S, next)

\* The simple cycles of at least 2 edges, as sets of edge indices: every
\* node the edges touch is touched twice, and the edges hang together.
SimpleCycles(nodes, edgeCount) ==
  {S \in SUBSET (1..edgeCount) :
     /\ Cardinality(S) >= 2
     /\ LET touched == {n \in DOMAIN nodes : DegreeIn(nodes, n, S) > 0}
        IN /\ \A n \in touched : DegreeIn(nodes, n, S) = 2
           /\ Joined(nodes, S, {CHOOSE n \in touched : TRUE}) = touched}

\* C27: the cycle search is complete: every simple cycle of at least 2
\* edges of the graph of the lines and arcs that are no construction
\* geometry is found, two edges that share both end points included, and
\* each cycle, taken as the set of its edges, is recorded once.
C27_CycleSearchComplete ==
  answer.tool = "detectProfiles" =>
    /\ {Range(Discovered[i]) : i \in DOMAIN Discovered}
         = SimpleCycles(QueryGraph, Len(QueryEdges))
    /\ \A i, j \in DOMAIN Discovered :
         i # j => Range(Discovered[i]) # Range(Discovered[j])
    /\ \A i \in DOMAIN Discovered :
         Cardinality(Range(Discovered[i])) = Len(Discovered[i])


\* The cycles filterSimpleCycles accepts, in order.
Accepted == findClosedLoops(QueryGraph)

\* C28: the accepted cycles are pairwise edge-disjoint, so that no line or
\* arc is an edge of two profiles; they are accepted in ascending order of
\* edge count; and every discovered cycle that is not accepted shares an
\* edge with an accepted cycle that has no more edges than it.
C28_AcceptedCyclesDisjoint ==
  answer.tool = "detectProfiles" =>
    /\ \A i, j \in DOMAIN Accepted :
         i # j => Range(Accepted[i]) \cap Range(Accepted[j]) = {}
    /\ \A i, j \in DOMAIN Accepted : i < j => Len(Accepted[i]) <= Len(Accepted[j])
    /\ Range(Accepted) \subseteq Range(Discovered)
    /\ \A d \in Range(Discovered) \ Range(Accepted) :
         \E a \in Range(Accepted) :
           Range(a) \cap Range(d) # {} /\ Len(a) <= Len(d)
    /\ Len(answer.profiles) <=
         Len(Drawn("circle")) + Len(Drawn("rectangle")) + Len(Accepted)

\* The square with a diagonal has been detected: of the three cycles found,
\* the square and the two triangles on the diagonal, the triangle found
\* first is accepted and the other two, which share an edge with it, are
\* not.
C28_Witness ==
  /\ answer.tool = "detectProfiles"
  /\ Len(Discovered) = 3
  /\ Len(Discovered[1]) = 4
  /\ Len(Accepted) = 1
  /\ Len(Accepted[1]) = 3
  /\ Len(answer.profiles) = 1


\* The profiles of the loops of lines and arcs, which come after those of
\* the circles and the rectangles.
LoopsReturned ==
  SubSeq(answer.profiles, Len(Drawn("circle")) + Len(Drawn("rectangle")) + 1,
         Len(answer.profiles))

\* The key of a point of an outer loop, which is held in hundredths.
KeyOf(p) == pointKey(<<p[1] \div 100, p[2] \div 100>>, query.unit)

\* The keys of the two ends of an edge.
EndKeys(edge) == {pointKey(edge.start, query.unit), pointKey(edge.end, query.unit)}

\* The outer loop is the vertices of the cycle, each once, in the order in
\* which the edges of the cycle join them.
WalksCycle(outerLoop, cycle) ==
  LET k == Len(cycle)
      vertices == {QueryGraph[n].key :
                     n \in {m \in DOMAIN QueryGraph : DegreeIn(QueryGraph, m, Range(cycle)) > 0}}
  IN /\ Len(outerLoop) = k
     /\ {KeyOf(outerLoop[j]) : j \in DOMAIN outerLoop} = vertices
     /\ Cardinality(vertices) = k
     /\ \A j \in DOMAIN outerLoop :
          \E e \in Range(cycle) :
            EndKeys(QueryEdges[e]) = {KeyOf(outerLoop[j]), KeyOf(outerLoop[(j % k) + 1])}

\* C29: for every accepted cycle of k edges the profile's outer loop is the
\* k vertices of the cycle, each once, in cyclic order along the cycle,
\* whatever the direction of each line and whatever other edges, such as a
\* line that ends in a vertex of the cycle, the sketch holds; its area is
\* the absolute shoelace area of that polygon.
C29_LoopConversion ==
  answer.tool = "detectProfiles" =>
    /\ Len(LoopsReturned) = Len(Accepted)
    /\ \A i \in DOMAIN Accepted :
         i \in DOMAIN LoopsReturned =>
           /\ WalksCycle(LoopsReturned[i].outerLoop, Accepted[i])
           /\ 200 * LoopsReturned[i].area = Abs(TwiceSignedArea(LoopsReturned[i].outerLoop, 1))


(***************************************************************************)
(* C30.  Snapping away from the origin.                                    *)
(***************************************************************************)
\* The origin is not within the snap radius of the queried position.
OriginOutOfReach ==
  Distance2(query.point, <<0, 0>>) >= Squared(SNAP_DISTANCE)

\* The snap points of the entities other than the excluded one that lie
\* within the snap radius of the position, each with its entity and type.
SnapCandidates ==
  UNION { { <<sp.point, entity.id, sp.type>> :
              sp \in { s \in Range(getEntitySnapPoints(entity)) :
                         Distance2(query.point, s.point) < Squared(SNAP_DISTANCE) } } :
          entity \in { en \in Range(query.entities) : en.id # query.id } }

\* The squared distance of the best entity candidate, or of the radius when
\* there is none.
BestCandidate2 ==
  IF SnapCandidates = {} THEN Squared(SNAP_DISTANCE)
  ELSE CHOOSE d \in { Distance2(query.point, c[1]) : c \in SnapCandidates } :
         \A c \in SnapCandidates : d <= Distance2(query.point, c[1])

\* The grid intersections around the position, and the squared distance of
\* the nearest of them.
GridIntersections ==
  { <<query.grid.gridSize * i, query.grid.gridSize * j>> : i \in (0 - 2)..2, j \in (0 - 2)..2 }

NearestGrid2 ==
  CHOOSE d \in { Distance2(query.point, g) : g \in GridIntersections } :
    \A g \in GridIntersections : d <= Distance2(query.point, g)

\* The grid point replaces the entity candidate.
GridReplaces == query.grid.snapEnabled /\ NearestGrid2 < BestCandidate2

C30_GridWitness ==
  /\ answer.tool = "findSnapPoint"
  /\ OriginOutOfReach
  /\ SnapCandidates # {}
  /\ answer.snap.present
  /\ answer.snap.type = "grid"


(***************************************************************************)
(* C31.  Trim and offset fail by value and without side effect.           *)
(***************************************************************************)
\* The query names an entity of the sketch.
Known == query.id \in IdsIn(query.entities)

\* trimLineAt cannot trim: unknown id, entity not a Line, or no intersection
\* on the line.
TrimCannot ==
  \/ ~Known
  \/ Named.type # "line"
  \/ LineIntersections(Named, query.entities, 1, <<>>) = <<>>

\* The reference point is not outside the named circle, or lies strictly
\* inside the named rectangle: the offset is taken inwards.
ReferenceInside ==
  IF Named.type = "circle"
  THEN Distance2(query.point, Named.p) <= Squared(Named.radius)
  ELSE /\ query.point[1] > Min(Named.p[1], Named.q[1])
       /\ query.point[1] < Max(Named.p[1], Named.q[1])
       /\ query.point[2] > Min(Named.p[2], Named.q[2])
       /\ query.point[2] < Max(Named.p[2], Named.q[2])

\* The offset tool cannot offset: unknown id, wrong entity type, a line of
\* length zero, or a radius or side that would not stay positive.
OffsetCannot ==
  \/ ~Known
  \/ /\ query.tool = "offsetLine"
     /\ Named.type # "line" \/ Named.p = Named.q
  \/ /\ query.tool = "offsetCircle"
     /\ \/ Named.type # "circle"
        \/ ReferenceInside /\ Named.radius - query.distance <= 0
  \/ /\ query.tool = "offsetRectangle"
     /\ \/ Named.type # "rectangle"
        \/ /\ ReferenceInside
           /\ \/ Max(Named.p[1], Named.q[1]) - Min(Named.p[1], Named.q[1]) - 2 * query.distance <= 0
              \/ Max(Named.p[2], Named.q[2]) - Min(Named.p[2], Named.q[2]) - 2 * query.distance <= 0

\* C31: in an Active session trimLineAt returns false on an unknown id, an
\* entity that is no Line or a line without intersection, and the offset
\* tools return null on an unknown id, a wrong entity type, a line of
\* length zero or a degenerate result; none of them throws, and whenever
\* false or null is returned the entities and constraints of the scratch
\* sketch are exactly as before the call.
C31_FailureByValue ==
  /\ answer.tool = "trimLineAt" =>
       /\ TrimCannot <=> answer.outcome = "false"
       /\ answer.outcome \in {"false", "true"}
  /\ answer.tool \in OffsetTools =>
       /\ OffsetCannot <=> answer.outcome = "null"
       /\ answer.outcome \in {"null", "entity"}
  /\ (answer.tool \in OffsetTools \cup {"trimLineAt"} /\ answer.outcome \in {"false", "null"}) =>
       /\ answer.entities = query.entities
       /\ answer.constraints = query.constraints

\* A line that nothing crosses was to be trimmed in a sketch that carries a
\* constraint.
C31_Witness ==
  /\ answer.tool = "trimLineAt"
  /\ answer.outcome = "false"
  /\ Known
  /\ Named.type = "line"
  /\ query.constraints # <<>>
  /\ Len(answer.entities) > 1

\* A line of length zero, and a circle that would shrink to nothing, were
\* to be offset.
C31_ZeroLengthWitness ==
  /\ answer.tool = "offsetLine"
  /\ answer.outcome = "null"
  /\ Known
  /\ Named.type = "line"

C31_DegenerateWitness ==
  /\ answer.tool = "offsetCircle"
  /\ answer.outcome = "null"
  /\ Known
  /\ Named.type = "circle"


(***************************************************************************)
(* SketchStoreSpec: the sketch store driving the engine.  After each of    *)
(* its operations the store sets sketchData to a copy of what getSketch    *)
(* returns, so the snapshot a reader sees between two operations is the    *)
(* scratch sketch of the engine as the last operation left it.             *)
(***************************************************************************)
\* SketchEngine.detectProfiles: the profiles of the scratch sketch are
\* detected anew.
detectProfilesOfSketch(e) ==
  IF e.activeSketch = 0 THEN e
  ELSE [e EXCEPT !.heap[e.activeSketch].profiles =
                   detectProfiles(EntitiesOf(e.heap, e.activeSketch), 1, SessionProfileIds)]

\* The maxDistance of findNearestLineEntity.
NearestLineReach == 15

\* The square of the distance pointToLineDistance returns, as a fraction.
LineDistance2(point, lineStart, lineEnd) ==
  LET dx == lineEnd[1] - lineStart[1]
      dy == lineEnd[2] - lineStart[2]
      lengthSquared == dx * dx + dy * dy
      dot == (point[1] - lineStart[1]) * dx + (point[2] - lineStart[2]) * dy
  IN IF lengthSquared = 0 \/ dot < 0 THEN Fraction(Distance2(point, lineStart), 1)
     ELSE IF dot > lengthSquared THEN Fraction(Distance2(point, lineEnd), 1)
     ELSE Fraction(Distance2(point, lineStart) * lengthSquared - dot * dot, lengthSquared)

\* The loop of findNearestLineEntity over the entities i..: near is the id
\* of the nearest line so far (0 for none) with its squared distance.
RECURSIVE NearestLine(_, _, _, _)
NearestLine(point, entities, i, near) ==
  IF i > Len(entities) THEN near
  ELSE LET d == LineDistance2(point, entities[i].p, entities[i].q)
       IN NearestLine(point, entities, i + 1,
                      IF entities[i].type = "line" /\ Below(d, near.distance)
                      THEN [id |-> entities[i].id, distance |-> d]
                      ELSE near)

findNearestLineEntity(e, point) ==
  IF e.activeSketch = 0 THEN 0
  ELSE NearestLine(point, EntitiesOf(e.heap, e.activeSketch), 1,
                   [id |-> 0, distance |-> Fraction(Squared(NearestLineReach), 1)]).id

\* What a drawing tool does with the entity it has added: the profiles are
\* detected and the snapshot is set.
AfterDrawing(r) ==
  IF r.outcome = "threw" THEN r ELSE Ret(detectProfilesOfSketch(r.e), "undefined", 0)

\* The loop of deleteSelectedEntities over the selection.
RECURSIVE DeleteAll(_, _)
DeleteAll(e, ids) ==
  IF ids = {} THEN e
  ELSE LET id == CHOOSE x \in ids : \A y \in ids : x <= y
       IN DeleteAll(deleteEntity(e, id).e, ids \ {id})

\* The end of trimAtPoint: after a successful trim the profiles are
\* detected and the snapshot is set.
AfterTrim(trimmed) ==
  IF trimmed.outcome = "true" THEN Ret(detectProfilesOfSketch(trimmed.e), "true", 0)
  ELSE trimmed

\* trimAtPoint once the nearest line is known (0 for none).
TrimNearest(e, nearest, point) ==
  IF nearest = 0 THEN Ret(e, "false", 0)
  ELSE AfterTrim(trimLineAt(e, nearest, point))

\* sketchStore.trimAtPoint
trimAtPoint(e, point) == TrimNearest(e, findNearestLineEntity(e, point), point)

\* sketchStore.applyOffset with toolState.offsetEntityId and
\* toolState.offsetDistance.
applyOffset(e, offsetEntityId, offsetDistance, referencePoint) ==
  LET index == EntityIndex(e, offsetEntityId)
      entity == EntitiesOf(e.heap, e.activeSketch)[index]
      offset == CASE entity.type = "line" ->
                       offsetLine(e, offsetEntityId, offsetDistance, referencePoint)
                  [] entity.type = "circle" ->
                       offsetCircle(e, offsetEntityId, offsetDistance, referencePoint)
                  [] entity.type = "rectangle" ->
                       offsetRectangle(e, offsetEntityId, offsetDistance, referencePoint)
                  [] OTHER -> Ret(e, "null", 0)
  IN IF e.activeSketch = 0 THEN Ret(e, "false", 0)
     ELSE IF index = 0 THEN Ret(e, "false", 0)
     ELSE IF offset.outcome = "entity" THEN Ret(detectProfilesOfSketch(offset.e), "true", 0)
     ELSE Ret(e, "false", 0)

EnterSketchMode ==
  /\ \E plane_ \in Planes :
       LET data == IF committed # 0 THEN [heap |-> heap, addr |-> committed]
                   ELSE createSketchData(heap)
       IN SketchCall("enterSketchMode",
                     loadSketch([Engine EXCEPT !.heap = data.heap], data.addr, plane_))

\* exitSketchMode(save): with save and a snapshot the profiles are detected
\* and finishSketch returns the final data; otherwise the sketch is cancelled.
ExitSketchMode ==
  \E save \in BOOLEAN :
    SketchCall("exitSketchMode",
               IF save /\ activeSketch # 0
               THEN finishSketch(detectProfilesOfSketch(Engine))
               ELSE cancelSketch(Engine))

\* startDrawing with the line tool in a chain: the line from the start
\* point to the click is added.
DrawLine ==
  /\ Room(1, 1)
  /\ SketchCall("startDrawing", AfterDrawing(addLine(Engine, <<0, 0>>, <<4, 0>>)))

\* startDrawing with the arc tool on the third click.
DrawArc ==
  /\ Room(1, 1)
  /\ \E radius \in Radii :
       SketchCall("startDrawing", AfterDrawing(addArc(Engine, <<0, 0>>, radius)))

\* finishDrawing with the rectangle, circle or point tool.
FinishDrawing ==
  /\ Room(1, 1)
  /\ \E tool \in {"rectangle", "circle", "point"}, radius \in Radii :
       SketchCall("finishDrawing",
                  IF activeSketch = 0 THEN Ret(Engine, "undefined", 0)
                  ELSE AfterDrawing(CASE tool = "rectangle" -> addRectangle(Engine, <<0, 0>>, <<4, 3>>)
                               [] tool = "circle" -> addCircle(Engine, <<0, 0>>, radius)
                               [] OTHER -> addPoint(Engine, <<0, 0>>)))

StoreUpdateEntity ==
  \E id \in EntityIdArgs, updates \in EntityUpdates :
    SketchCall("updateEntity",
               IF activeSketch = 0 THEN Ret(Engine, "undefined", 0)
               ELSE Ret(updateEntity(Engine, id, updates).e, "undefined", 0))

\* deleteSelectedEntities with selectedEntityIds, entities of the sketch.
DeleteSelectedEntities ==
  \E selectedEntityIds \in SUBSET {ScratchEntities[i].id : i \in DOMAIN ScratchEntities} :
    SketchCall("deleteSelectedEntities",
               IF activeSketch = 0 \/ selectedEntityIds = {} THEN Ret(Engine, "undefined", 0)
               ELSE Ret(DeleteAll(Engine, selectedEntityIds), "undefined", 0))

StoreToggleConstruction ==
  \E id \in EntityIdArgs :
    SketchCall("toggleConstruction", toggleConstruction(Engine, id))

\* The call returns an engine within the bounds of the model.
WithinBounds(e) ==
  /\ e.nextEntityId <= MaxEntityIds
  /\ e.activeSketch # 0 => Len(EntitiesOf(e.heap, e.activeSketch)) <= MaxEntities

BoundedCall(op, r) == WithinBounds(r.e) /\ SketchCall(op, r)

TrimAtPoint ==
  \E point \in ClickPoints : BoundedCall("trimAtPoint", trimAtPoint(Engine, point))

ApplyOffset ==
  /\ Room(1, 1)
  /\ \E id \in EntityIdArgs, d \in OffsetDistances, ref \in ReferencePoints :
       SketchCall("applyOffset", applyOffset(Engine, id, d, ref))

SketchStoreNext ==
  \/ EnterSketchMode
  \/ ExitSketchMode
  \/ DrawLine
  \/ DrawArc
  \/ FinishDrawing
  \/ StoreUpdateEntity
  \/ DeleteSelectedEntities
  \/ StoreToggleConstruction
  \/ TrimAtPoint
  \/ ApplyOffset

SketchStoreSpec == SketchInit /\ [][SketchStoreNext]_vars

(***************************************************************************)
(* C32.  The snapshot's profiles are those of its entities.                *)
(***************************************************************************)
\* The profiles of the sketch are what detectProfiles finds in its
\* entities, the ids of the profiles drawn alike.
ProfilesDetected(sketch) ==
  sketch.profiles = detectProfiles(sketch.entities, 1, SessionProfileIds)

\* C32: the snapshot the sketch store shows after each of its mutating
\* operations, and the SketchData finishSketch returns, hold as profiles
\* what detectProfiles finds in their entities.
C32_SnapshotConsistent ==
  /\ (activeSketch # 0 /\ lastReturn.op # "enterSketchMode") =>
       ProfilesDetected(SketchValue(heap, activeSketch))
  /\ (lastReturn.op = "exitSketchMode" /\ lastReturn.outcome = "sketch") =>
       ProfilesDetected(lastReturn.value)

\* What does hold: the snapshot is consistent after an entity has been
\* drawn, after a trim or an offset that succeeded, and in the data that
\* finishSketch returns.
C32_DetectingOperations ==
  /\ (activeSketch # 0 /\ lastReturn.op \in {"startDrawing", "finishDrawing"}) =>
       ProfilesDetected(SketchValue(heap, activeSketch))
  /\ (activeSketch # 0 /\ lastReturn.op \in {"trimAtPoint", "applyOffset"}
        /\ lastReturn.outcome = "true") =>
       ProfilesDetected(SketchValue(heap, activeSketch))
  /\ (lastReturn.op = "exitSketchMode" /\ lastReturn.outcome = "sketch") =>
       ProfilesDetected(lastReturn.value)


(***************************************************************************)
(* C36.  Dirty flags closed downstream.                                    *)
(***************************************************************************)
\* C36: in every reachable state of the document, if a feature that is not
\* suppressed is dirty then every feature after it in the list is dirty.
C36_DirtyClosedDownstream ==
  \A i \in DOMAIN features :
    (features[i].dirty /\ ~features[i].suppressed) =>
      \A j \in DOMAIN features : j > i => features[j].dirty

(***************************************************************************)
(* C40.  Unknown ids in the document store.                                *)
(***************************************************************************)
\* C40: updateFeature, updateParameter, suppressFeature, deleteFeature and
\* markFeatureDirty called with an id that is not in the feature list leave
\* the feature list as it is; no dirty flag changes.
C40_UnknownIdsAreNoOps ==
  /\ \A updates \in FeatureUpdates(UnknownId) :
       updateFeature(features, UnknownId, updates) = features
  /\ \A edit \in ParameterEdits :
       updateParameter(features, UnknownId, edit[1], edit[2]) = features
  /\ \A suppressed \in BOOLEAN :
       suppressFeature(features, UnknownId, suppressed) = features
  /\ deleteFeature(features, UnknownId) = features
  /\ markFeatureDirty(features, UnknownId) = features

\* What does hold: markFeatureDirty with an unknown id changes nothing, and
\* the other four change no more than dirty flags.
SameButDirty(after) ==
  /\ Len(after) = Len(features)
  /\ \A i \in DOMAIN features : [after[i] EXCEPT !.dirty = features[i].dirty] = features[i]

C40_UnknownIdsKeepContent ==
  /\ \A updates \in FeatureUpdates(UnknownId) :
       SameButDirty(updateFeature(features, UnknownId, updates))
  /\ \A edit \in ParameterEdits :
       SameButDirty(updateParameter(features, UnknownId, edit[1], edit[2]))
  /\ \A suppressed \in BOOLEAN :
       SameButDirty(suppressFeature(features, UnknownId, suppressed))
  /\ SameButDirty(deleteFeature(features, UnknownId))
  /\ markFeatureDirty(features, UnknownId) = features


(***************************************************************************)
(* AppSpec: the rebuild loop of App.tsx.  The effect of lines 134-156 runs *)
(* whenever document.features has changed and schedules performRebuild     *)
(* after 150 ms; performRebuild is a closure over the feature list of that *)
(* render.  A rebuild suspends at await ManifoldEngine.initialize() for as *)
(* long as the module loads; nothing else in it waits for an event, so     *)
(* once the kernel is there a rebuild runs to its commit before any timer  *)
(* or edit is handled.  The clock is not part of this specification: a     *)
(* timeout that is set fires at some later instant.                        *)
(***************************************************************************)
MaxEdits == 2
MaxStarts == 3

WithDocument(fs) == [i \in DOMAIN fs |-> [fs[i] EXCEPT !.dirty = TRUE]]

\* The documents the App starts with, every feature as addFeature left it.
AppDocuments ==
  { WithDocument(<<createPrimitiveFeature("A", "box", <<0, 0, 0>>)>>),
    WithDocument(<<createSketchFeature("S", "XY", 0, OneProfile),
                   createExtrudeFeature("E", "S", "normal", "new", NoRef)>>),
    WithDocument(<<createPrimitiveFeature("A", "box", <<0, 0, 0>>),
                   createPrimitiveFeature("B", "sphere", <<5, 0, 0>>),
                   createBooleanFeature("C", "A", "B", "union")>>),
    WithDocument(<<createPrimitiveFeature("A", "box", <<0, 0, 0>>),
                   createPrimitiveFeature("B", "sphere", <<5, 0, 0>>)>>) }

\* The effect of App.tsx:134-156 for the feature list fs, not in sketch
\* mode: the cleanup of the previous run clears its timeout, and a new one
\* is set if a feature that is not suppressed is dirty.  rebuildTimeout is
\* held in debounceTimer.
rebuildEffect(rt, fs) ==
  LET cleaned == IF rt.debounceTimer # 0 THEN clearTimeout(rt, rt.debounceTimer) ELSE rt
      set == setTimeout(cleaned, fs, 0, DebounceMs)
  IN IF ~hasDirty(fs) THEN cleaned
     ELSE [set EXCEPT !.debounceTimer = set.nextTimerId]

Scheduled(rt) ==
  /\ timers' = rt.timers
  /\ debounceTimer' = rt.debounceTimer
  /\ nextTimerId' = rt.nextTimerId

AppInit ==
  /\ features \in AppDocuments
  /\ nextBodyId = 0
  /\ nextHandle = 0
  /\ rebuildCount = 0
  /\ lastResult = NoResult
  /\ kernel = NoKernel
  /\ SketchUnused
  /\ LET rt == rebuildEffect([timers |-> {}, debounceTimer |-> 0, nextTimerId |-> 0,
                              now |-> 0], features)
     IN /\ timers = rt.timers
        /\ debounceTimer = rt.debounceTimer
        /\ nextTimerId = rt.nextTimerId
  /\ now = 0
  /\ calls = <<>>
  /\ started = <<>>
  /\ completions = <<>>
  /\ ToolsUnused

\* Rebuilds that have resumed run to their commit before the runtime
\* handles another event.
Draining == kernel.wasm /\ InFlight # {}

\* The edits of the document store the App is driven with.
DocumentEdits(fs, id) ==
  { updateFeature(fs, id, EmptyMap), updateParameter(fs, id, "position", <<1, 0, 0>>),
    suppressFeature(fs, id, TRUE), deleteFeature(fs, id) }

\* An edit of the document: the store replaces the feature list and the
\* effect runs.  The edit is logged with the rebuilds in flight.
EditDocument ==
  \E id \in FeatureIds(features) :
    \E fs \in DocumentEdits(features, id) :
      /\ ~Draining
      /\ Len(calls) < MaxEdits
      /\ features' = fs
      /\ Scheduled(rebuildEffect(Runtime, fs))
      /\ calls' = Append(calls, [at |-> Len(started), id |-> id, features |-> fs,
                                 pending |-> InFlight])
      /\ UNCHANGED <<nextBodyId, nextHandle, rebuildCount, lastResult, kernel>>
      /\ UNCHANGED <<now, started, completions>>
      /\ UNCHANGED <<sketchVars, toolVars>>

\* App.tsx:158-168: the App calls ManifoldEngine.initialize() when it mounts.
Initialize ==
  /\ ~Draining
  /\ kernel' = initialize(kernel)
  /\ UNCHANGED <<features, nextBodyId, nextHandle, rebuildCount, lastResult>>
  /\ UNCHANGED <<sketchVars, debounceVars, toolVars>>

\* The number of awaits of the loop of rebuild: one for every feature that
\* is evaluated.
Awaits(fs) ==
  Cardinality({i \in DOMAIN fs :
                 ~fs[i].suppressed /\ ~(~fs[i].dirty /\ fs[i].cached.present)})

\* setCachedResult is called for some feature of the rebuilt list: the store
\* holds a new feature list.
Commits(rebuilt, result) ==
  \E i \in DOMAIN rebuilt :
    ~rebuilt[i].suppressed /\ Len(BodiesOf(result.bodies, rebuilt[i].id)) > 0

\* The timeout fires and performRebuild starts: rebuild calls initialize
\* and awaits it.  With the kernel there the rebuild runs to its commit,
\* otherwise it is suspended.
AppTimerFires ==
  \E t \in timers :
    /\ ~Draining
    /\ Len(started) < MaxStarts
    /\ kernel' = initialize(kernel)
    /\ started' = Append(started, [features |-> t.features, suspended |-> ~kernel.wasm])
    /\ IF kernel.wasm
       THEN \E result \in {rebuild(t.features, nextBodyId, nextHandle)} :
              \E fs \in {CommitResults(features, t.features, 1, result)} :
                \E fired \in {[Runtime EXCEPT !.timers = timers \ {t}]} :
                  /\ features' = fs
                  /\ nextBodyId' = result.nextBodyId
                  /\ nextHandle' = result.nextHandle
                  /\ rebuildCount' = rebuildCount + 1
                  /\ lastResult' = result
                  /\ completions' = Append(completions,
                                           [rebuild |-> Len(started) + 1,
                                            wasm |-> kernel.wasm,
                                            success |-> result.success])
                  /\ Scheduled(IF Commits(t.features, result)
                               THEN rebuildEffect(fired, fs)
                               ELSE fired)
       ELSE /\ timers' = timers \ {t}
            /\ UNCHANGED <<features, nextBodyId, nextHandle, rebuildCount, lastResult,
                           debounceTimer, nextTimerId, completions>>
    /\ UNCHANGED <<now, calls>>
    /\ UNCHANGED <<sketchVars, toolVars>>

\* The module has loaded: this.wasm is set and the promise every suspended
\* rebuild awaits is resolved.
ModuleLoads ==
  /\ kernel.initPromise
  /\ ~kernel.wasm
  /\ kernel' = moduleLoaded(kernel)
  /\ UNCHANGED <<features, nextBodyId, nextHandle, rebuildCount, lastResult>>
  /\ UNCHANGED <<sketchVars, debounceVars, toolVars>>

\* The resumed rebuilds take turns at their awaits, so the one with the
\* fewest awaits left returns first, the earlier one if they have as many.
NextToCommit ==
  CHOOSE k \in InFlight :
    \A j \in InFlight :
      \/ Awaits(started[k].features) < Awaits(started[j].features)
      \/ Awaits(started[k].features) = Awaits(started[j].features) /\ k <= j

\* A resumed rebuild returns and performRebuild commits its result.
RebuildResumes ==
  /\ Draining
  /\ \E k \in {NextToCommit} :
       \E result \in {rebuild(started[k].features, nextBodyId, nextHandle)} :
         \E fs \in {CommitResults(features, started[k].features, 1, result)} :
           /\ features' = fs
           /\ nextBodyId' = result.nextBodyId
           /\ nextHandle' = result.nextHandle
           /\ rebuildCount' = rebuildCount + 1
           /\ lastResult' = result
           /\ completions' = Append(completions, [rebuild |-> k, wasm |-> kernel.wasm,
                                                  success |-> result.success])
           /\ Scheduled(IF Commits(started[k].features, result)
                        THEN rebuildEffect(Runtime, fs)
                        ELSE Runtime)
  /\ UNCHANGED <<kernel, now, calls, started>>
  /\ UNCHANGED <<sketchVars, toolVars>>

AppNext ==
  \/ EditDocument
  \/ Initialize
  \/ AppTimerFires
  \/ ModuleLoads
  \/ RebuildResumes

\* The runtime runs every timeout, the module loads once its load has
\* begun, and every resumed rebuild runs on.
AppSpec ==
  /\ AppInit
  /\ [][AppNext]_vars
  /\ WF_vars(AppTimerFires)
  /\ WF_vars(ModuleLoads)
  /\ WF_vars(RebuildResumes)


(***************************************************************************)
(* C33.  One rebuild in flight.                                            *)
(***************************************************************************)
\* C33: with every rebuild requested through the debounced timer of the
\* App, at most one rebuild is in flight at any time, also while the
\* initialisation of the Solid Kernel is pending.
C33_OneRebuildInFlight == Cardinality(InFlight) <= 1

\* What does hold: once the kernel is initialised a rebuild that a timeout
\* starts has committed when the step ends, so rebuilds are in flight
\* together only if they were suspended on the initialisation.
C33_OnlyWhileInitialising ==
  \A k \in InFlight : started[k].suspended

(***************************************************************************)
(* C34.  Kernel initialisation.                                            *)
(***************************************************************************)
\* C34: whatever the interleaving of initialize() and rebuild() calls, the
\* WASM module is instantiated at most once, callers that arrive while it
\* loads share the pending initialisation, and no rebuild evaluates a
\* feature before the initialisation has completed.
C34_InitialisedOnce ==
  /\ kernel.loads <= 1
  /\ kernel.wasm => kernel.initPromise /\ kernel.loads = 1
  /\ \A j \in DOMAIN completions : completions[j].wasm
  /\ ~kernel.wasm => completions = <<>>

\* Two rebuilds were suspended on the initialisation that the App had
\* begun, and both have run after it.
C34_Witness ==
  /\ kernel.loads = 1
  /\ \E j, k \in DOMAIN started :
       /\ j # k
       /\ started[j].suspended
       /\ started[k].suspended
       /\ {j, k} \subseteq {completions[c].rebuild : c \in DOMAIN completions}

(***************************************************************************)
(* C35.  The rebuild loop quiesces.                                        *)
(***************************************************************************)
\* No rebuild is scheduled or in flight and no feature that is not
\* suppressed is dirty.
Quiescent == timers = {} /\ InFlight = {} /\ ~hasDirty(features)

\* C35: after the last edit the cycle of dirty feature, debounced rebuild,
\* cache commit and document change reaches a state in which no rebuild is
\* scheduled or in flight and no feature that is not suppressed is dirty,
\* and stays there.
C35_RebuildLoopQuiesces == <>[]Quiescent

\* Nothing is left to run: no timeout is set and no rebuild is in flight, so
\* without another edit the feature list stays as it is.
Stopped == timers = {} /\ InFlight = {}

\* Every rebuild so far has evaluated its features without an error.
AllSucceeded == \A c \in DOMAIN completions : completions[c].success

\* C35: what the claim asks of the states in which the loop has come to
\* rest: with every evaluation successful and no rebuild scheduled or in
\* flight, no feature that is not suppressed is dirty.
C35_StoppedMeansClean == Stopped /\ AllSucceeded => ~hasDirty(features)

(***************************************************************************)
(* C37.  No lost edit.                                                     *)
(***************************************************************************)
\* Rebuild k commits in this step.
CommitsNow(k) ==
  /\ Len(completions') = Len(completions) + 1
  /\ completions'[Len(completions')].rebuild = k

\* C37: when a rebuild commits that was in flight while a feature was
\* edited, then after the commit the edited feature is still dirty, or a
\* rebuild is scheduled, or a rebuild that started after the edit is in
\* flight.
C37_NoLostEdit ==
  [][\A c \in DOMAIN calls :
       \A k \in calls[c].pending :
         CommitsNow(k) =>
           \/ \A i \in DOMAIN features' :
                features'[i].id = calls[c].id => features'[i].dirty
           \/ timers' # {}
           \/ \E j \in InFlight' : j > calls[c].at]_vars

(***************************************************************************)
(* C38.  Results are committed in request order.                           *)
(***************************************************************************)
\* C38: the rebuilds commit in the order in which they were started: none
\* commits after a rebuild that was started later has committed.
C38_CommitsInRequestOrder ==
  \A i, j \in DOMAIN completions :
    i < j => completions[i].rebuild < completions[j].rebuild


(***************************************************************************)
(* C39.  Constraints refer to entities of the sketch.                      *)
(***************************************************************************)
\* The entity ids a constraint refers to.
ReferencesOf(c) == {c.entityId, c.entityId1, c.entityId2} \ {NoConstraintRef}

ScratchEntityIds == {ScratchEntities[i].id : i \in DOMAIN ScratchEntities}

\* Every constraint of the scratch sketch was added for an entity: none
\* refers to the id that no entity has ever had.
AddedForEntities ==
  \A i \in DOMAIN ScratchConstraints :
    UnknownEntityId \notin ReferencesOf(ScratchConstraints[i])

\* C39: in an active session whose constraints were added for entities that
\* existed at that time, every constraint of the scratch sketch refers only
\* to ids of entities that are in the sketch now.
C39_ConstraintsReferToEntities ==
  (activeSketch # 0 /\ AddedForEntities) =>
    \A i \in DOMAIN ScratchConstraints :
      ReferencesOf(ScratchConstraints[i]) \subseteq ScratchEntityIds

\* What does hold of deleteEntity: after it no constraint refers to the id
\* that was deleted.
C39_DeleteRemovesConstraints ==
  [][\A id \in EntityIdArgs :
       (lastReturn'.op = "deleteEntity" /\ activeSketch # 0
          /\ id \notin {e.id : e \in {ScratchEntities'[i] : i \in DOMAIN ScratchEntities'}}
          /\ id # UnknownEntityId)
       => \A i \in DOMAIN ScratchConstraints' :
            id \notin ReferencesOf(ScratchConstraints'[i])]_vars

============================================================================
